---- MODULE Spec2Model ----
(***************************************************************************)
(* The subtitle pipeline of AI-Subtitles: command validates the URL, builds *)
(* the service layers and runs program (getAudio, transcribe, print) inside *)
(* one Effect scope whose close releases the temporary file.                *)
(*                                                                          *)
(* The repository holds three versions of the command line program:         *)
(*   "continuous"  src/src/main.ts              (Azure, continuous)         *)
(*   "once"        src/unnamed/part_002:1-350   (Azure, recognizeOnceAsync) *)
(*   "poll"        src/unnamed/part_002:351-667 (AssemblyAI, submit/poll)   *)
(* The variable variant says which one runs.                                *)
(*                                                                          *)
(* Specifications:                                                          *)
(*   Spec            the whole run up to the end of the process,            *)
(*                   transcribe seen as one exchange                        *)
(*   SpecUrl         the URL validator on a family of inputs                *)
(*   SpecFiles       FileSystemService (makeTempFile, cleanupFile) alone    *)
(*   SpecContinuous  the run of main.ts from the call of transcribe on,     *)
(*                   with the events of its recognizer                      *)
(*   SpecOnce        the single-shot run from the process wait on, with the *)
(*                   callbacks and the timer of its transcribe              *)
(*   SpecPoll        the AssemblyAI run from the process wait on, with the  *)
(*                   upload, submit and poll loop of its transcribe;        *)
(*                   FairPoll adds weak fairness                            *)
(*   SpecTranscribe  the runs of the three versions side by side            *)
(***************************************************************************)
EXTENDS Integers, Sequences, FiniteSets, TLC

VARIABLES
    variant,      \* which version of the program runs
    services,     \* "live": command with the real services; "stub": program with the mocks of main.test.ts
    url,          \* the command line argument, a sequence of characters
    pc,           \* position of the pipeline fiber
    outcome,      \* exit of the fiber: "none", "success", "failure", "interrupted"
    error,        \* the failure the fiber ended with
    stages,       \* history of the pipeline states entered
    log,          \* what console.log has printed, in order
    file,         \* the path makeTempFile reserved
    acquired,     \* the finalizer of acquireRelease is registered in the scope
    releases,     \* number of times cleanupFile has run
    unlinkResult, \* what FS.unlink did in cleanupFile
    fileExists,   \* a file exists at the reserved path
    procAliveAtRelease, \* the extraction process was running when cleanupFile ran
    handle,       \* kind of value ytDlpWrap.exec returned
    proc,         \* the extraction process: "none", "running", "exited"
    exitCode,     \* its exit code once exited
    launches,     \* number of ytDlpWrap.exec calls
    events,       \* process events not yet delivered to the listeners
    closeSeen,    \* the close event (or promise settlement) was delivered
    errorSeen,    \* an error event was delivered
    dl,           \* the promise of getAudio: "idle", "pending", "resolved", "rejected"
    dlError,      \* the value it was rejected with
    getAudioExit, \* how getAudio ended for program: "none", "success", "failure", "interrupted"
    audioFile,    \* the path getAudio returned to program
    trans,        \* the promise of transcribe: "idle", "pending", "resolved", "rejected"
    transArg,     \* the path transcribe was called with
    transCalls,   \* number of transcribe calls
    subtitles,    \* what transcribe resolved with
    transError,   \* what transcribe was rejected with
    interrupted,  \* the fiber was interrupted (cancellation): the AbortSignal is aborted
    \* the continuous recognizer of transcribe (main.ts)
    results,      \* const results: the running token list of the listeners
    received,     \* the recognized-speech events delivered so far, in order
    session,      \* the recognition session: "none", "open", "stopped"
    stops,        \* number of stopContinuousRecognitionAsync calls
    delivered,    \* number of backend events delivered to the listeners
    \* the async function of transcribe (AssemblyAI, part_002)
    at,           \* where it is: "idle", "read", "upload", "submit", "top", "status", "sleep", "returned", "threw"
    elapsed,      \* let elapsed
    requests,     \* the HTTP requests issued, in order
    uploadRef,    \* uploadData.upload_url
    jobId,        \* transcriptId
    statusData,   \* the parsed body of the last status response
    responses,    \* number of requests that have ended, with a response or a rejection
    \* the single-shot recognizer of transcribe (part_002:163-253)
    timer,        \* the 30 s timeout: "none", "armed", "cleared", "fired"
    recognizer,   \* let recognizer: "none", "live" (the object), "undefined" (after close)
    closes,       \* number of recognizer.close() calls
    answer,       \* what recognizeOnceAsync has called one of its two callbacks with
    \* FileSystemService called on its own
    now,          \* Date.now()
    made,         \* how the makeTempFile calls ended, in order
    disk,         \* the paths at which a file exists
    cleaned,      \* how the cleanupFile calls ended, in order
    \* the process of the command line program
    env,          \* the names of the configuration values the environment holds
    exitStatus,   \* the status the process ended with
    reported      \* what the catch of the last line has handed to console.error

vars == <<variant, services, url, pc, outcome, error, stages, log, file, acquired,
          releases, unlinkResult, fileExists, procAliveAtRelease, handle, proc,
          exitCode, launches, events, closeSeen, errorSeen, dl, dlError,
          getAudioExit, audioFile, trans, transArg, transCalls, subtitles,
          transError, interrupted,
          results, received, session, stops, delivered,
          at, elapsed, requests, uploadRef, jobId, statusData, responses,
          timer, recognizer, closes, answer,
          now, made, disk, cleaned,
          env, exitStatus, reported>>

\* the state of the continuous recognizer, of the poll loop and of the
\* single-shot recognizer
recognizerVars == <<results, received, session, stops, delivered>>
pollVars == <<at, elapsed, requests, uploadRef, jobId, statusData, responses>>
onceVars == <<timer, recognizer, closes, answer>>
transcriberVars == <<recognizerVars, pollVars, onceVars>>
\* what the calls of FileSystemService outside a run have done
fsVars == <<now, made, disk, cleaned>>
\* the environment and the end of the process
cliVars == <<env, exitStatus, reported>>

(***************************************************************************)
(* Characters and strings. A string is a sequence of one-character strings. *)
(***************************************************************************)
Lower == {"a","b","c","d","e","f","g","h","i","j","k","l","m",
          "n","o","p","q","r","s","t","u","v","w","x","y","z"}
Upper == {"A","B","C","D","E","F","G","H","I","J","K","L","M",
          "N","O","P","Q","R","S","T","U","V","W","X","Y","Z"}
Digit == {"0","1","2","3","4","5","6","7","8","9"}
\* \n and a blank stand for the line terminators and the other white space
LineTerminators == {"\n"}
WhiteSpace == {"\n", " "}
Punct == {":", "/", ".", "?", "=", "&", "_", "-", "!"}
Alphabet == Lower \cup Upper \cup Digit \cup Punct \cup WhiteSpace

\* [a-zA-Z0-9_-]
IdChars == Lower \cup Upper \cup Digit \cup {"_", "-"}
\* .   (no s flag: every character but a line terminator)
DotChars == Alphabet \ LineTerminators
\* \S
NonSpace == Alphabet \ WhiteSpace
\* [^\/\n\s]
NotSlashNorSpace == Alphabet \ ({"/"} \cup WhiteSpace)

\* {11}
IdLen == 11

(***************************************************************************)
(* Regular expressions, by the positions a match can end at: each operator  *)
(* takes the set I of positions a match may start at (1 is the start of s,  *)
(* Len(s)+1 its end) and returns the positions right after a match.         *)
(***************************************************************************)
Lit(s, I, lit) ==
    { i + Len(lit) : i \in { j \in I : /\ j + Len(lit) - 1 <= Len(s)
                                       /\ SubSeq(s, j, j + Len(lit) - 1) = lit } }

Opt(s, I, lit) == I \cup Lit(s, I, lit)

Rep(s, I, class, n) ==
    { i + n : i \in { j \in I : /\ j + n - 1 <= Len(s)
                               /\ \A k \in j..(j + n - 1) : s[k] \in class } }

Star(s, I, class) ==
    { j \in 1..(Len(s) + 1) :
        \E i \in I : i <= j /\ \A k \in i..(j - 1) : s[k] \in class }

Plus(s, I, class) ==
    { j \in 1..(Len(s) + 1) :
        \E i \in I : i < j /\ \A k \in i..(j - 1) : s[k] \in class }

\* ^ ... $ without the m flag: the match starts at 1 and ends at the end of s
AtEnd(s, I) == (Len(s) + 1) \in I

Http == <<"h","t","t","p">>
ColonSlashSlash == <<":","/","/">>
Www == <<"w","w","w",".">>
YoutubeCom == <<"y","o","u","t","u","b","e",".","c","o","m","/">>
WatchV == <<"w","a","t","c","h","?","v","=">>
YoutuBe == <<"y","o","u","t","u",".","b","e","/">>

\* /^https?:\/\/(www\.)?(youtube\.com\/watch\?v=|youtu\.be\/)[a-zA-Z0-9_-]{11}.*$/
YoutubeRegex(s) ==
    LET p1 == Lit(s, {1}, Http)
        p2 == Opt(s, p1, <<"s">>)
        p3 == Lit(s, p2, ColonSlashSlash)
        p4 == Opt(s, p3, Www)
        p5 == Lit(s, p4, YoutubeCom \o WatchV) \cup Lit(s, p4, YoutuBe)
        p6 == Rep(s, p5, IdChars, IdLen)
        p7 == Star(s, p6, DotChars)
    IN  AtEnd(s, p7)

\* /^(https?:\/\/)?(www\.)?(youtube\.com\/(?:[^\/\n\s]+\/\S+\/|(?:v|e(?:mbed)?)\/|\S*?[?&]v=)|youtu\.be\/)([a-zA-Z0-9_-]{11})$/
YoutubeRegexPoll(s) ==
    LET q1 == {1} \cup Lit(s, Opt(s, Lit(s, {1}, Http), <<"s">>), ColonSlashSlash)
        q2 == Opt(s, q1, Www)
        y  == Lit(s, q2, YoutubeCom)
        a1 == Lit(s, Plus(s, Lit(s, Plus(s, y, NotSlashNorSpace), <<"/">>), NonSpace), <<"/">>)
        a2 == Lit(s, Lit(s, y, <<"v">>) \cup Opt(s, Lit(s, y, <<"e">>), <<"m","b","e","d">>), <<"/">>)
        a3 == Lit(s, Lit(s, Star(s, y, NonSpace), <<"?">>) \cup Lit(s, Star(s, y, NonSpace), <<"&">>), <<"v","=">>)
        q3 == a1 \cup a2 \cup a3 \cup Lit(s, q2, YoutuBe)
        q4 == Rep(s, q3, IdChars, IdLen)
    IN  AtEnd(s, q4)

\* isValidYouTubeUrl of the version that runs
isValidYouTubeUrl(v, s) ==
    IF v = "poll" THEN YoutubeRegexPoll(s) ELSE YoutubeRegex(s)

(***************************************************************************)
(* Values.                                                                  *)
(***************************************************************************)
Variants == {"continuous", "once", "poll"}

\* code: number | null of the close event; NullCode stands for null
NullCode == -1
MaxExitCode == 1
ExitCodes == 0..MaxExitCode \cup {NullCode}

\* Path.join(realpath(tmpdir), `fluent-ai-subtitles-${Date.now()}.wav`), one per clock value
MaxClock == 2
\* a name that leaves the extension out:
TempName_NoExtension(t, extension) == <<"fluent-ai-subtitles", t, "">>
\* `fluent-ai-subtitles-${Date.now()}.${extension}` in the real temp directory
TempName(t, extension) == <<"fluent-ai-subtitles", t, extension>>
TempPath(t) == TempName(t, "wav")
TempPaths == { TempPath(t) : t \in 1..MaxClock }
NoFile == <<"none", 0, "none">>
\* the value of a field that is not there, and of an effect without a value
Undefined == "undefined"
\* Config.string("SPEECH_KEY"), Config.string("SPEECH_REGION"),
\* Config.string("ASSEMBLYAI_KEY")
\* a streaming backend that is built from the key alone:
Required_KeyOnly(v) == IF v = "poll" THEN {"ASSEMBLYAI_KEY"} ELSE {"SPEECH_KEY"}
\* the values the configuration service of version v reads
Required(v) == IF v = "poll" THEN {"ASSEMBLYAI_KEY"} ELSE {"SPEECH_KEY", "SPEECH_REGION"}
\* exitStatus of a process that has not ended
StillRunning == -1
\* getAudio of the mock downloader
StubPath == <<"/tmp/test-audio", 0, "wav">>

(* An error value: the chain of tagged errors wrapped around a cause (outermost
   first), the kind of the innermost cause, and what the cause carries. *)
Err(tags, kind, code, u) == [tags |-> tags, kind |-> kind, code |-> code, url |-> u]
NoError == Err(<<>>, "none", NullCode, <<>>)
\* new YoutubeDownloadError({ error })
YoutubeDownloadError(e) == [e EXCEPT !.tags = <<"YoutubeDownloadError">> \o @]
\* new TranscriptionError({ error })
\* a catch that hands the rejection on as it is:
TranscriptionError_Bare(e) == e
TranscriptionError(e) == [e EXCEPT !.tags = <<"TranscriptionError">> \o @]
\* new InvalidUrlError({ url })
InvalidUrlError(u) == Err(<<"InvalidUrlError">>, "url", NullCode, u)
\* new Error(`yt-dlp exited with code ${code}`)
ExitedWithCode(code) == Err(<<>>, "exit", code, <<>>)
\* new Error("aborted")
Aborted == Err(<<>>, "aborted", NullCode, <<>>)
\* the value of an error event, the rejection of the library's promise, a throw of exec
SpawnError == Err(<<>>, "spawn", NullCode, <<>>)
LibraryRejection(code) == Err(<<>>, "library", code, <<>>)
ExecThrew == Err(<<>>, "thrown", NullCode, <<>>)
RealpathFailed == Err(<<>>, "realpath", NullCode, <<>>)
ConfigMissing == Err(<<"ConfigError">>, "config", NullCode, <<>>)
BackendFailed == Err(<<>>, "backend", NullCode, <<>>)
ReadFailed == Err(<<>>, "enoent", NullCode, <<>>)

\* SubtitleToken; score is in hundredths
Token(id, value, startMs, endMs, score) ==
    [id |-> id, value |-> value, startTimeMs |-> startMs, endTimeMs |-> endMs, score |-> score]
\* the result of the mock transcriber
StubTokens == << Token(0, "Test transcription", 1000, 3000, 85) >>
\* the sample output of the README
SampleTokens == << Token(0, "Welcome to this tutorial on Effect framework.", 1200, 4800, 92),
                  Token(1, "Today we'll learn about functional programming.", 5000, 8500, 87) >>
TokenLists == { <<>>, StubTokens, SampleTokens }
\* what "once" resolves with, resolve([subtitles]): a list that holds the
\* one-token list
OnceLists == { << << Token(0, "Test transcription", 1000, 3000, 80) >> >> }
\* the values transcribe of version v can resolve with
Answers(v) == IF v = "once" THEN OnceLists ELSE TokenLists

(***************************************************************************)
(* JSON.stringify(subtitles, null, 2) and its inverse: a number is printed  *)
(* in decimal, a string in quotes, a list element by element.               *)
(***************************************************************************)
MaxJsonNumber == 8500
Quoted(str) == <<"\"", str, "\"">>
JsonToken(t) ==
    [id |-> ToString(t.id), value |-> Quoted(t.value),
     startTimeMs |-> ToString(t.startTimeMs), endTimeMs |-> ToString(t.endTimeMs),
     score |-> ToString(t.score)]
\* JSON.stringify that loses the last element of the list
JsonStringify_DropLast(tokens) ==
    [i \in 1..(IF Len(tokens) = 0 THEN 0 ELSE Len(tokens) - 1) |-> JsonToken(tokens[i])]
\* JSON.stringify(subtitles, null, 2)
JsonStringify(tokens) == [i \in 1..Len(tokens) |-> JsonToken(tokens[i])]

ParseNumber(text) == CHOOSE n \in 0..MaxJsonNumber : ToString(n) = text
JsonParse(json) ==
    [i \in 1..Len(json) |->
        Token(ParseNumber(json[i].id), json[i].value[2],
              ParseNumber(json[i].startTimeMs), ParseNumber(json[i].endTimeMs),
              ParseNumber(json[i].score))]
\* the same for the value of "once", a list of token lists
JsonStringifyLists(lists) == [i \in 1..Len(lists) |-> JsonStringify(lists[i])]
JsonParseLists(json) == [i \in 1..Len(json) |-> JsonParse(json[i])]

\* a line of console.log
LogEntry(kind, u, path, json) == [kind |-> kind, url |-> u, path |-> path, json |-> json]
\* `Processing URL: ${args.url}`
ProcessingUrl(u) == LogEntry("processing", u, NoFile, <<>>)
\* `Audio downloaded to: ${audioFile}`
AudioDownloaded(path) == LogEntry("downloaded", <<>>, path, <<>>)
\* JSON.stringify(subtitles, null, 2)
JsonOutput(tokens) == LogEntry("json", <<>>, NoFile, JsonStringify(tokens))
\* the line program of version v prints for what transcribe returned
Printed(v, value) ==
    IF v = "once" THEN LogEntry("json", <<>>, NoFile, JsonStringifyLists(value))
                  ELSE JsonOutput(value)
\* what that line reads back as
Parsed(v, json) == IF v = "once" THEN JsonParseLists(json) ELSE JsonParse(json)
\* the progress lines transcribe of "poll" prints itself
TranscriberProgress == LogEntry("transcriber", <<>>, NoFile, <<>>)

(***************************************************************************)
(* Inputs.                                                                  *)
(***************************************************************************)
Https == Http \o <<"s">> \o ColonSlashSlash
VideoId == <<"d","Q","w","4","w","9","W","g","X","c","Q">>
\* "https://www.youtube.com/watch?v=dQw4w9WgXcQ"
UrlWatch == Https \o Www \o YoutubeCom \o WatchV \o VideoId
\* "http://youtube.com/watch?v=dQw4w9WgXcQ&t=30s"
UrlWithQuery == Http \o ColonSlashSlash \o YoutubeCom \o WatchV \o VideoId \o <<"&","t","=","3","0","s">>
\* "youtube.com/watch?v=dQw4w9WgXcQ"
UrlNoScheme == YoutubeCom \o WatchV \o VideoId
\* "https://vimeo.com/123456"
UrlVimeo == Https \o <<"v","i","m","e","o",".","c","o","m","/","1","2","3","4","5","6">>
\* "https://www.youtube.com/watch?v=test-video", the argument of the test
UrlTest == Https \o Www \o YoutubeCom \o WatchV \o <<"t","e","s","t","-","v","i","d","e","o">>
PipelineUrls == {UrlWatch, UrlWithQuery, UrlNoScheme, UrlVimeo}

(***************************************************************************)
(* The initial state: the arguments are given, nothing has run.             *)
(***************************************************************************)
\* what a response field holds before any response has come
NoRef == "none"
\* statusData before any status response
NoStatus == [status |-> "none", hasWords |-> FALSE, words |-> <<>>, error |-> <<>>]
\* the argument of the first callback of recognizeOnceAsync: result.reason,
\* .text, .offset, .duration
OnceAnswer(reason, text, offset, duration) ==
    [reason |-> reason, text |-> text, offset |-> offset, duration |-> duration]
\* no callback yet, and the call of the second callback
NoAnswer == OnceAnswer("none", Undefined, 0, 0)
ErrorAnswer == OnceAnswer("error", Undefined, 0, 0)
Start(v, sv, u, p, names) ==
    /\ variant = v
    /\ env = names
    /\ exitStatus = StillRunning
    /\ reported = <<>>
    /\ services = sv
    /\ url = u
    /\ pc = p
    /\ outcome = "none"
    /\ error = NoError
    /\ stages = <<>>
    /\ log = <<>>
    /\ file = NoFile
    /\ acquired = FALSE
    /\ releases = 0
    /\ unlinkResult = "none"
    /\ fileExists = FALSE
    /\ procAliveAtRelease = FALSE
    /\ handle = "none"
    /\ proc = "none"
    /\ exitCode = NullCode
    /\ launches = 0
    /\ events = <<>>
    /\ closeSeen = FALSE
    /\ errorSeen = FALSE
    /\ dl = "idle"
    /\ dlError = NoError
    /\ getAudioExit = "none"
    /\ audioFile = NoFile
    /\ trans = "idle"
    /\ transArg = NoFile
    /\ transCalls = 0
    /\ subtitles = <<>>
    /\ transError = NoError
    /\ interrupted = FALSE
    /\ results = <<>>
    /\ received = <<>>
    /\ session = "none"
    /\ stops = 0
    /\ delivered = 0
    /\ at = "idle"
    /\ elapsed = 0
    /\ requests = <<>>
    /\ uploadRef = NoRef
    /\ jobId = NoRef
    /\ statusData = NoStatus
    /\ responses = 0
    /\ timer = "none"
    /\ recognizer = "none"
    /\ closes = 0
    /\ answer = NoAnswer
    /\ now = 1
    /\ made = <<>>
    /\ disk = {}
    /\ cleaned = <<>>

\* cli(Bun.argv) runs command with the real services; the test of
\* main.test.ts runs the exported program of "poll" with the mock services
Init ==
    \/ \E v \in Variants, u \in PipelineUrls :
          \E names \in SUBSET Required(v) : Start(v, "live", u, "validate", names)
    \/ Start("poll", "stub", UrlTest, "logProcessing", {})

(***************************************************************************)
(* How a failure and an interruption end the fiber: the scope of            *)
(* Effect.scoped closes next.                                               *)
(***************************************************************************)
Fails(e) ==
    /\ error' = e
    /\ outcome' = "failure"
    /\ stages' = Append(stages, "Failed")
    /\ pc' = "closing"

(***************************************************************************)
(* command: validateUrl, before anything else is built.                     *)
(***************************************************************************)
Validate ==
    /\ UNCHANGED <<transcriberVars, fsVars, cliVars>>
    /\ pc = "validate"
    /\ IF isValidYouTubeUrl(variant, url)
         THEN /\ pc' = "layers"
              /\ stages' = Append(stages, "Validating")
              /\ UNCHANGED <<error, outcome>>
         ELSE \* Effect.fail(new InvalidUrlError({ url })): no scope is open yet
              /\ pc' = "ended"
              /\ stages' = stages \o <<"Validating", "Failed">>
              /\ error' = InvalidUrlError(url)
              /\ outcome' = "failure"
    /\ UNCHANGED <<variant, services, url, log, file, acquired, releases, unlinkResult,
                   fileExists, procAliveAtRelease, handle, proc, exitCode, launches,
                   events, closeSeen, errorSeen, dl, dlError, getAudioExit, audioFile,
                   trans, transArg, transCalls, subtitles, transError, interrupted>>

\* Effect.provide(program, appLayer): the layers are built inside the scope;
\* Config.string fails when a credential is not in the environment
BuildLayers ==
    /\ UNCHANGED <<transcriberVars, fsVars, cliVars>>
    /\ pc = "layers"
    /\ IF Required(variant) \subseteq env
         THEN pc' = "logProcessing" /\ UNCHANGED <<error, outcome, stages>>
         ELSE Fails(ConfigMissing)
    /\ UNCHANGED <<variant, services, url, log, file, acquired, releases, unlinkResult,
                   fileExists, procAliveAtRelease, handle, proc, exitCode, launches,
                   events, closeSeen, errorSeen, dl, dlError, getAudioExit, audioFile,
                   trans, transArg, transCalls, subtitles, transError, interrupted>>

(***************************************************************************)
(* program                                                                  *)
(***************************************************************************)
\* yield* _(Console.log(`Processing URL: ${args.url}`))
LogProcessing ==
    /\ UNCHANGED <<transcriberVars, fsVars, cliVars>>
    /\ pc = "logProcessing"
    /\ log' = Append(log, ProcessingUrl(url))
    /\ pc' = "acquire"
    /\ UNCHANGED <<variant, services, url, outcome, error, stages, file, acquired,
                   releases, unlinkResult, fileExists, procAliveAtRelease, handle, proc,
                   exitCode, launches, events, closeSeen, errorSeen, dl, dlError,
                   getAudioExit, audioFile, trans, transArg, transCalls, subtitles,
                   transError, interrupted>>

\* downloader.getAudio(args.url), first half: Effect.acquireRelease(fs.makeTempFile("wav"), ...).
\* The acquisition is uninterruptible; when it succeeds the finalizer is in the scope.
\* The mock downloader is Effect.succeed("/tmp/test-audio.wav").
Acquire ==
    /\ UNCHANGED <<transcriberVars, fsVars, cliVars>>
    /\ pc = "acquire"
    /\ IF services = "stub"
         THEN /\ audioFile' = StubPath
              /\ getAudioExit' = "success"
              /\ pc' = "logDownloaded"
              /\ stages' = Append(stages, "Acquiring")
              /\ UNCHANGED <<file, acquired, error, outcome>>
         ELSE \/ \E t \in 1..MaxClock :
                   /\ file' = TempPath(t)
                   /\ acquired' = TRUE
                   /\ pc' = "launch"
                   /\ stages' = Append(stages, "Acquiring")
                   /\ UNCHANGED <<audioFile, getAudioExit, error, outcome>>
              \/ \* FS.realpath(OS.tmpdir()) rejects
                 /\ error' = YoutubeDownloadError(RealpathFailed)
                 /\ outcome' = "failure"
                 /\ getAudioExit' = "failure"
                 /\ pc' = "closing"
                 /\ stages' = stages \o <<"Acquiring", "Failed">>
                 /\ UNCHANGED <<file, acquired, audioFile>>
    /\ UNCHANGED <<variant, services, url, log, releases, unlinkResult,
                   fileExists, procAliveAtRelease, handle, proc, exitCode, launches,
                   events, closeSeen, errorSeen, dl, dlError,
                   trans, transArg, transCalls, subtitles, transError, interrupted>>

\* a process event waiting for its listener
Event(type, code) == [type |-> type, code |-> code]

\* getAudio, second half: the executor of the promise in Effect.tryPromise.
\* ytDlpWrap.exec starts the process (or throws); the listeners are installed
\* by the kind of handle it returned; with neither `on` nor `then` the
\* promise is resolved at once.
Launch ==
    /\ UNCHANGED <<transcriberVars, fsVars, cliVars>>
    /\ pc = "launch"
    /\ launches' = launches + 1
    /\ \/ \E h \in {"emitter", "promise", "neither"} :
            /\ handle' = h
            /\ proc' = "running"
            /\ dl' = IF h = "neither" THEN "resolved" ELSE "pending"
            /\ UNCHANGED dlError
       \/ /\ dl' = "rejected"
          /\ dlError' = ExecThrew
          /\ UNCHANGED <<handle, proc>>
    /\ pc' = "awaitDownload"
    /\ UNCHANGED <<variant, services, url, outcome, error, stages, log, file, acquired,
                   releases, unlinkResult, fileExists, procAliveAtRelease,
                   exitCode, events, closeSeen, errorSeen,
                   getAudioExit, audioFile, trans, transArg, transCalls, subtitles,
                   transError, interrupted>>

(***************************************************************************)
(* The extraction process (yt-dlp url -x --audio-format wav -o file). It    *)
(* runs on its own: nothing in getAudio stops it.                           *)
(***************************************************************************)
ProcWrite ==
    /\ UNCHANGED <<transcriberVars, fsVars, cliVars>>
    /\ proc = "running"
    /\ ~fileExists
    /\ fileExists' = TRUE
    /\ UNCHANGED <<variant, services, url, pc, outcome, error, stages, log, file, acquired,
                   releases, unlinkResult, procAliveAtRelease, handle, proc,
                   exitCode, launches, events, closeSeen, errorSeen, dl, dlError,
                   getAudioExit, audioFile, trans, transArg, transCalls, subtitles,
                   transError, interrupted>>

ProcError ==
    /\ UNCHANGED <<transcriberVars, fsVars, cliVars>>
    /\ proc = "running"
    /\ ~errorSeen
    /\ \A i \in 1..Len(events) : events[i].type # "error"
    /\ events' = Append(events, Event("error", NullCode))
    /\ UNCHANGED <<variant, services, url, pc, outcome, error, stages, log, file, acquired,
                   releases, unlinkResult, fileExists, procAliveAtRelease, handle, proc,
                   exitCode, launches, closeSeen, errorSeen, dl, dlError,
                   getAudioExit, audioFile, trans, transArg, transCalls, subtitles,
                   transError, interrupted>>

ProcExit ==
    /\ UNCHANGED <<transcriberVars, fsVars, cliVars>>
    /\ proc = "running"
    /\ \E code \in ExitCodes :
         /\ exitCode' = code
         /\ events' = Append(events, Event("close", code))
    /\ proc' = "exited"
    /\ UNCHANGED <<variant, services, url, pc, outcome, error, stages, log, file, acquired,
                   releases, unlinkResult, fileExists, procAliveAtRelease, handle,
                   launches, closeSeen, errorSeen, dl, dlError,
                   getAudioExit, audioFile, trans, transArg, transCalls, subtitles,
                   transError, interrupted>>

\* the "error" listener: reject(e)
OnError(e) == SpawnError
\* the "close" listener: resolve() for code 0, else
\* reject(new YoutubeDownloadError({ error: new Error(`yt-dlp exited with code ${code}`) }))
OnCloseSettles(code) == IF code = 0 THEN "resolved" ELSE "rejected"
OnCloseError(code) == IF code = 0 THEN NoError ELSE YoutubeDownloadError(ExitedWithCode(code))
\* proc.then(() => resolve()).catch((e) => reject(e)): the promise of the
\* library is fulfilled when the process ends with code 0 and rejected otherwise
OnPromiseSettles(e) == IF e.type = "close" /\ e.code = 0 THEN "resolved" ELSE "rejected"
OnPromiseError(e) ==
    IF e.type = "close" THEN (IF e.code = 0 THEN NoError ELSE LibraryRejection(e.code))
    ELSE SpawnError

\* the next process event reaches the listeners; a promise settles once
Deliver ==
    /\ UNCHANGED <<transcriberVars, fsVars, cliVars>>
    /\ events # <<>>
    /\ events' = Tail(events)
    /\ LET e == Head(events) IN
         /\ closeSeen' = (closeSeen \/ (handle # "neither" /\ e.type = "close"))
         /\ errorSeen' = (errorSeen \/ (handle # "neither" /\ e.type = "error"))
         /\ IF dl # "pending" \/ handle = "neither"
              THEN UNCHANGED <<dl, dlError>>
              ELSE IF handle = "emitter"
                     THEN IF e.type = "error"
                            THEN dl' = "rejected" /\ dlError' = OnError(e)
                            ELSE dl' = OnCloseSettles(e.code) /\ dlError' = OnCloseError(e.code)
                     ELSE dl' = OnPromiseSettles(e) /\ dlError' = OnPromiseError(e)
    /\ UNCHANGED <<variant, services, url, pc, outcome, error, stages, log, file, acquired,
                   releases, unlinkResult, fileExists, procAliveAtRelease, handle, proc,
                   exitCode, launches,
                   getAudioExit, audioFile, trans, transArg, transCalls, subtitles,
                   transError, interrupted>>

\* where program goes when the effect of getAudio has ended.
\* A program that goes on to transcribe whatever getAudio did:
AfterDownload_Continue(d) == "logDownloaded"
\* a program that launches the extraction again after a failure:
AfterDownload_Retry(d) == IF d = "resolved" THEN "logDownloaded" ELSE "launch"
\* const audioFile = yield* _(downloader.getAudio(args.url)): a failure ends program
AfterDownload(d) == IF d = "resolved" THEN "logDownloaded" ELSE "closing"

\* the fiber resumes with the settled promise: .pipe(Effect.map(() => file)), or
\* catch: (error) => new YoutubeDownloadError({ error })
ResumeDownload ==
    /\ UNCHANGED <<transcriberVars, fsVars, cliVars>>
    /\ pc = "awaitDownload"
    /\ dl \in {"resolved", "rejected"}
    /\ pc' = AfterDownload(dl)
    /\ IF dl = "resolved"
         THEN /\ audioFile' = file
              /\ getAudioExit' = "success"
              /\ UNCHANGED <<error, outcome, stages>>
         ELSE /\ error' = YoutubeDownloadError(dlError)
              /\ outcome' = "failure"
              /\ getAudioExit' = "failure"
              /\ stages' = Append(stages, "Failed")
              /\ UNCHANGED audioFile
    /\ UNCHANGED <<variant, services, url, log, file, acquired,
                   releases, unlinkResult, fileExists, procAliveAtRelease, handle, proc,
                   exitCode, launches, events, closeSeen, errorSeen, dl, dlError,
                   trans, transArg, transCalls, subtitles,
                   transError, interrupted>>

\* yield* _(Console.log(`Audio downloaded to: ${audioFile}`))
LogDownloaded ==
    /\ UNCHANGED <<transcriberVars, fsVars, cliVars>>
    /\ pc = "logDownloaded"
    /\ log' = Append(log, AudioDownloaded(audioFile))
    /\ pc' = "transcribe"
    /\ UNCHANGED <<variant, services, url, outcome, error, stages, file, acquired,
                   releases, unlinkResult, fileExists, procAliveAtRelease, handle, proc,
                   exitCode, launches, events, closeSeen, errorSeen, dl, dlError,
                   getAudioExit, audioFile, trans, transArg, transCalls, subtitles,
                   transError, interrupted>>

\* the file transcribe reads is there
Readable(path) == path = file /\ fileExists

\* transcriber.transcribe(audioFile): every version reads the whole file
\* first (readFileSync, FS.readFile); "poll" prints its progress with
\* console.log ("Reading audio file...", then "Uploading audio to AssemblyAI...").
\* The exchange with the backend that follows is TranscribeSettle.
\* The mock transcriber is Effect.succeed of the fixed list.
TranscribeStart ==
    /\ UNCHANGED <<transcriberVars, fsVars, cliVars>>
    /\ pc = "transcribe"
    /\ stages' = Append(stages, "Transcribing")
    /\ transCalls' = transCalls + 1
    /\ transArg' = audioFile
    /\ pc' = "awaitTranscribe"
    /\ IF services = "stub"
         THEN /\ trans' = "resolved"
              /\ subtitles' = StubTokens
              /\ UNCHANGED <<log, transError>>
         ELSE /\ UNCHANGED subtitles
              /\ IF Readable(audioFile)
                   THEN /\ trans' = "pending"
                        /\ UNCHANGED transError
                        /\ log' = IF variant = "poll"
                                    THEN log \o <<TranscriberProgress, TranscriberProgress>>
                                    ELSE log
                   ELSE /\ trans' = "rejected"
                        /\ transError' = ReadFailed
                        /\ log' = IF variant = "poll"
                                    THEN Append(log, TranscriberProgress)
                                    ELSE log
    /\ UNCHANGED <<variant, services, url, outcome, error, file, acquired,
                   releases, unlinkResult, fileExists, procAliveAtRelease, handle, proc,
                   exitCode, launches, events, closeSeen, errorSeen, dl, dlError,
                   getAudioExit, audioFile, interrupted>>

\* the backend answers: a token list, or a failure
TranscribeSettle ==
    /\ UNCHANGED <<transcriberVars, fsVars, cliVars>>
    /\ trans = "pending"
    /\ \/ \E tokens \in Answers(variant) :
            /\ trans' = "resolved"
            /\ subtitles' = tokens
            /\ UNCHANGED transError
       \/ /\ trans' = "rejected"
          /\ transError' = BackendFailed
          /\ UNCHANGED subtitles
    /\ UNCHANGED <<variant, services, url, pc, outcome, error, stages, log, file, acquired,
                   releases, unlinkResult, fileExists, procAliveAtRelease, handle, proc,
                   exitCode, launches, events, closeSeen, errorSeen, dl, dlError,
                   getAudioExit, audioFile, transArg, transCalls, interrupted>>

\* where program goes when the effect of transcribe has ended.
\* A program that prints whatever transcribe did:
AfterTranscribe_Always(t) == "print"
\* const subtitles = yield* _(transcriber.transcribe(audioFile)): a failure ends program
AfterTranscribe(t) == IF t = "resolved" THEN "print" ELSE "closing"

\* the fiber resumes with the settled promise, or
\* catch: (error) => new TranscriptionError({ error })
ResumeTranscribe ==
    /\ UNCHANGED <<transcriberVars, fsVars, cliVars>>
    /\ pc = "awaitTranscribe"
    /\ trans \in {"resolved", "rejected"}
    /\ pc' = AfterTranscribe(trans)
    /\ IF trans = "resolved"
         THEN UNCHANGED <<error, outcome, stages>>
         ELSE /\ error' = TranscriptionError(transError)
              /\ outcome' = "failure"
              /\ stages' = Append(stages, "Failed")
    /\ UNCHANGED <<variant, services, url, log, file, acquired,
                   releases, unlinkResult, fileExists, procAliveAtRelease, handle, proc,
                   exitCode, launches, events, closeSeen, errorSeen, dl, dlError,
                   getAudioExit, audioFile, trans, transArg, transCalls, subtitles,
                   transError, interrupted>>

\* yield* _(Console.log(JSON.stringify(subtitles, null, 2))): program is done
PrintJson ==
    /\ UNCHANGED <<transcriberVars, fsVars, cliVars>>
    /\ pc = "print"
    /\ log' = Append(log, Printed(variant, subtitles))
    /\ stages' = Append(stages, "Done")
    /\ outcome' = "success"
    /\ pc' = "closing"
    /\ UNCHANGED <<variant, services, url, error, file, acquired,
                   releases, unlinkResult, fileExists, procAliveAtRelease, handle, proc,
                   exitCode, launches, events, closeSeen, errorSeen, dl, dlError,
                   getAudioExit, audioFile, trans, transArg, transCalls, subtitles,
                   transError, interrupted>>

(***************************************************************************)
(* Cancellation: the fiber is interrupted. It ends at once with an          *)
(* interruption; while it waits for a tryPromise the AbortSignal fires, and *)
(* the abort listener rejects the promise if it is still pending. An        *)
(* interruption that arrives during the uninterruptible acquisition takes   *)
(* effect right after it, that is at "launch".                              *)
(***************************************************************************)
Interruptible == {"layers", "logProcessing", "launch", "awaitDownload", "logDownloaded",
                  "transcribe", "awaitTranscribe", "print"}

\* a fiber that an interruption does not take out of its wait:
InterruptedAt_StillWaiting(p) == p
\* where the interrupted fiber goes from p: it stops there and its scope closes
InterruptedAt(p) == "closing"

\* a timer nothing clears:
ClearTimeout_Never(t) == t
\* clearTimeout(timeoutId)
ClearTimeout(t) == IF t = "armed" THEN "cleared" ELSE t

Interrupt ==
    /\ pc \in Interruptible
    /\ ~interrupted
    /\ interrupted' = TRUE
    /\ outcome' = "interrupted"
    /\ stages' = Append(stages, "Failed")
    /\ pc' = InterruptedAt(pc)
    /\ getAudioExit' = IF pc \in {"launch", "awaitDownload"} THEN "interrupted" ELSE getAudioExit
    /\ IF pc = "awaitDownload" /\ dl = "pending"
         THEN \* reject(new YoutubeDownloadError({ error: new Error("aborted") }))
              dl' = "rejected" /\ dlError' = YoutubeDownloadError(Aborted)
         ELSE UNCHANGED <<dl, dlError>>
    /\ IF pc = "awaitTranscribe" /\ trans = "pending"
         THEN \* continuous: reject(new TranscriptionError({ error: new Error("aborted") }))
              \* once: reject(new Error("Speech recognition aborted"))
              \* poll: no abort listener, the async function goes on
              IF variant = "poll"
                THEN UNCHANGED <<trans, transError>>
                ELSE /\ trans' = "rejected"
                     /\ transError' = IF variant = "continuous"
                                        THEN TranscriptionError(Aborted) ELSE Aborted
         ELSE UNCHANGED <<trans, transError>>
    /\ \* continuous, in the abort listener: recognizer.stopContinuousRecognitionAsync()
       stops' = IF pc = "awaitTranscribe" /\ session # "none" THEN stops + 1 ELSE stops
    /\ \* once, in the abort listener: clearTimeout(timeoutId);
       \* if (recognizer) { recognizer.close(); recognizer = undefined; }
       IF pc = "awaitTranscribe" /\ recognizer # "none"
         THEN /\ timer' = ClearTimeout(timer)
              /\ closes' = IF recognizer = "live" THEN closes + 1 ELSE closes
              /\ recognizer' = "undefined"
         ELSE UNCHANGED <<timer, recognizer, closes>>
    /\ UNCHANGED <<variant, services, url, error, log, file, acquired,
                   releases, unlinkResult, fileExists, procAliveAtRelease, handle, proc,
                   exitCode, launches, events, closeSeen, errorSeen,
                   audioFile, transArg, transCalls, subtitles,
                   results, received, session, delivered, pollVars, answer, fsVars, cliVars>>

(***************************************************************************)
(* Effect.scoped: when program has ended, however it ended, the scope       *)
(* closes and runs the finalizer acquireRelease registered, once.           *)
(***************************************************************************)
\* a release placed after the last statement instead of in the scope:
ReleaseRuns_OnSuccessOnly(registered, exit) == IF registered /\ exit = "success" THEN 1 ELSE 0
\* how many times the scope runs (file) => fs.cleanupFile(file)
ReleaseRuns(registered, exit) == IF registered THEN 1 ELSE 0

\* a cleanupFile that does not delete:
FileAfterUnlink_Kept(existed, ok) == existed
\* FS.unlink(path): whether a file is at the path afterwards
FileAfterUnlink(existed, ok) == existed /\ ~ok

\* cleanupFile: FS.unlink(path), every rejection swallowed
\* (catch: () => undefined, then Effect.catchAll(() => Effect.succeed(undefined)))
ScopeClose ==
    /\ UNCHANGED <<transcriberVars, fsVars, cliVars>>
    /\ pc = "closing"
    /\ pc' = "ended"
    /\ releases' = releases + ReleaseRuns(acquired, outcome)
    /\ IF ReleaseRuns(acquired, outcome) > 0
         THEN /\ procAliveAtRelease' = (proc = "running")
              /\ \E ok \in BOOLEAN :
                   /\ ok => fileExists     \* unlink of a missing file rejects (ENOENT)
                   /\ unlinkResult' = IF ok THEN "deleted"
                                      ELSE IF fileExists THEN "failed" ELSE "absent"
                   /\ fileExists' = FileAfterUnlink(fileExists, ok)
         ELSE UNCHANGED <<procAliveAtRelease, unlinkResult, fileExists>>
    /\ UNCHANGED <<variant, services, url, outcome, error, stages, log, file, acquired,
                   handle, proc,
                   exitCode, launches, events, closeSeen, errorSeen, dl, dlError,
                   getAudioExit, audioFile, trans, transArg, transCalls, subtitles,
                   transError, interrupted>>

\* what the promise of Effect.runPromise is rejected with when the run has
\* ended with exit
InterruptCause == Err(<<>>, "interrupt", NullCode, <<>>)
Rejection(exit, e) ==
    IF exit = "failure" THEN <<e>>
    ELSE IF exit = "interrupted" THEN <<InterruptCause>> ELSE <<>>
\* the status of a process that ends because its event loop is empty:
\* process.exit is not called and process.exitCode is not set
ExitStatus(exit) == 0

\* Effect.runPromise(cli(Bun.argv)).catch(console.error): the promise of the
\* run settles; a rejection is printed by console.error and is handled by
\* that. The process ends when nothing is left to wait for; the extraction
\* process, while it runs, keeps it alive.
CliExit ==
    /\ pc = "ended"
    /\ services = "live"
    /\ exitStatus = StillRunning
    /\ proc # "running"
    /\ reported' = reported \o Rejection(outcome, error)
    /\ exitStatus' = ExitStatus(outcome)
    /\ UNCHANGED <<transcriberVars, fsVars, env>>
    /\ UNCHANGED <<variant, services, url, pc, outcome, error, stages, log, file, acquired,
                   releases, unlinkResult, fileExists, procAliveAtRelease, handle, proc,
                   exitCode, launches, events, closeSeen, errorSeen, dl, dlError,
                   getAudioExit, audioFile, trans, transArg, transCalls, subtitles,
                   transError, interrupted>>

Next ==
    \/ Validate
    \/ BuildLayers
    \/ LogProcessing
    \/ Acquire
    \/ Launch
    \/ ProcWrite
    \/ ProcError
    \/ ProcExit
    \/ Deliver
    \/ ResumeDownload
    \/ LogDownloaded
    \/ TranscribeStart
    \/ TranscribeSettle
    \/ ResumeTranscribe
    \/ PrintJson
    \/ Interrupt
    \/ ScopeClose
    \/ CliExit

Spec == Init /\ [][Next]_vars

(***************************************************************************)
(* FileSystemService on its own, as main.test.ts calls it: makeTempFile and *)
(* cleanupFile any number of times, while the clock advances and files are  *)
(* written at the reserved paths.                                           *)
(***************************************************************************)
\* the calls of each of the two functions that are followed
MaxCalls == 2
Extensions == {"wav", "mp3"}
\* fs.cleanupFile("/tmp/test-file.wav") of the test: a path nothing was written at
NeverCreated == <<"/tmp/test-file", 0, "wav">>

\* how a makeTempFile call ended
Made(extension, exit, path, e) ==
    [extension |-> extension, exit |-> exit, path |-> path, error |-> e]
\* how a cleanupFile call ended
Cleaned(path, unlink, exit, value) ==
    [path |-> path, unlink |-> unlink, exit |-> exit, value |-> value]

\* FS.unlink(path): "deleted", or the rejection ("absent": ENOENT, "failed": any other)
Unlink(exists, io) == IF ~exists THEN "absent" ELSE IF io THEN "deleted" ELSE "failed"
\* a cleanupFile that fails when the deletion does:
CleanupExit_Raises(unlink) == IF unlink = "deleted" THEN "success" ELSE "failure"
\* Effect.tryPromise({ try: () => FS.unlink(path), catch: () => undefined })
\*   .pipe(Effect.catchAll(() => Effect.succeed(undefined)))
CleanupExit(unlink) == "success"

\* the variables of a pipeline run
runVars == <<variant, services, url, pc, outcome, error, stages, log, file, acquired,
             releases, unlinkResult, fileExists, procAliveAtRelease, handle, proc,
             exitCode, launches, events, closeSeen, errorSeen, dl, dlError,
             getAudioExit, audioFile, trans, transArg, transCalls, subtitles,
             transError, interrupted, transcriberVars, cliVars>>

\* no run: the layer with FileSystemService.Default is provided to a test program
InitFiles == Start("continuous", "live", UrlWatch, "services", Required("continuous"))

\* Date.now() advances
Tick ==
    /\ pc = "services"
    /\ now < MaxClock
    /\ now' = now + 1
    /\ UNCHANGED <<runVars, made, disk, cleaned>>

\* fs.makeTempFile(extension): the path is put together from the real temp
\* directory and the clock, or FS.realpath rejects and
\* catch: (error) => new YoutubeDownloadError({ error })
MakeTempFile ==
    /\ pc = "services"
    /\ Len(made) < MaxCalls
    /\ \E extension \in Extensions :
         \/ made' = Append(made, Made(extension, "success", TempName(now, extension), NoError))
         \/ made' = Append(made, Made(extension, "failure", NoFile,
                                      YoutubeDownloadError(RealpathFailed)))
    /\ UNCHANGED <<runVars, now, disk, cleaned>>

\* a file is written at a reserved path (by the extraction process)
WriteFile ==
    /\ pc = "services"
    /\ \E i \in 1..Len(made) :
         /\ made[i].exit = "success"
         /\ made[i].path \notin disk
         /\ disk' = disk \cup {made[i].path}
    /\ UNCHANGED <<runVars, now, made, cleaned>>

\* fs.cleanupFile(path): FS.unlink(path), every rejection swallowed
CleanupFile ==
    /\ pc = "services"
    /\ Len(cleaned) < MaxCalls
    /\ \E path \in {made[i].path : i \in {j \in 1..Len(made) : made[j].exit = "success"}}
                    \cup {NeverCreated},
          io \in BOOLEAN :
         LET unlink == Unlink(path \in disk, io)
         IN  /\ cleaned' = Append(cleaned, Cleaned(path, unlink, CleanupExit(unlink), Undefined))
             /\ disk' = IF unlink = "deleted" THEN disk \ {path} ELSE disk
    /\ UNCHANGED <<runVars, now, made>>

NextFiles ==
    \/ Tick
    \/ MakeTempFile
    \/ WriteFile
    \/ CleanupFile

SpecFiles == InitFiles /\ [][NextFiles]_vars

(***************************************************************************)
(* The validator alone, on a family of inputs put together from the parts   *)
(* of the grammar and from parts that break it.                             *)
(***************************************************************************)
Ftp == <<"f","t","p">> \o ColonSlashSlash
Embed == <<"e","m","b","e","d","/">>
Vimeo == <<"v","i","m","e","o",".","c","o","m","/">>
WatchTV == <<"w","a","t","c","h","?","t","=","1","&","v","=">>
InputSchemes == { <<>>, Http \o ColonSlashSlash, Https, Ftp }
InputWww == { <<>>, Www }
InputHosts == { <<>>, YoutubeCom \o WatchV, YoutuBe, YoutubeCom \o Embed, Vimeo,
                YoutubeCom \o WatchTV }
InputIds == { <<>>, VideoId, SubSeq(VideoId, 1, IdLen - 1), VideoId \o <<"Q">>,
              [VideoId EXCEPT ![5] = "!"] }
InputSuffixes == { <<>>, <<"&","t","=","3","0","s">>, <<"\n">>, <<"/","x">> }
UrlInputs ==
    { sc \o w \o h \o id \o sf :
        sc \in InputSchemes, w \in InputWww, h \in InputHosts,
        id \in InputIds, sf \in InputSuffixes }

InitUrl == \E v \in Variants, u \in UrlInputs : Start(v, "live", u, "validate", Required(v))

SpecUrl == InitUrl /\ [][Validate]_vars

(***************************************************************************)
(* transcribe of main.ts (continuous recognition): the executor of the      *)
(* promise, the three listeners of the recognizer, the abort listener, and  *)
(* the fiber of program that waits for the promise.                         *)
(*                                                                          *)
(* A JavaScript number that comes out of a division is kept as a fraction   *)
(* in lowest terms; it is an integer when its denominator is 1.             *)
(***************************************************************************)
RECURSIVE Gcd(_, _)
Gcd(a, b) == IF b = 0 THEN a ELSE Gcd(b, a % b)
\* n / d of two non-negative numbers, d > 0
Quotient(n, d) == LET g == Gcd(n, d) IN [num |-> n \div g, den |-> d \div g]
\* the number n itself
Whole(n) == [num |-> n, den |-> 1]

\* offset and duration are in ticks of 100 ns
TicksPerMs == 10000
\* a conversion that takes the ticks for microseconds:
TicksToMs_Micro(ticks) == Quotient(ticks, 1000)
\* Number(ticks / 10000)
TicksToMs(ticks) == Quotient(ticks, TicksPerMs)

\* a confidence the backend did not supply (undefined); scores are in
\* hundredths. getProperty returns the value of the property as a string:
\* the number n stands there for the string that Number reads as n / 100
NoConfidence == -1
\* || 0.5
FallbackScore == 50
\* a chain that stops at its first operand:
OrElse_First(a, b) == a
\* a || b of JavaScript on numbers: undefined and 0 are falsy
OrElse(a, b) == IF a # NoConfidence /\ a # 0 THEN a ELSE b
\* str || b where str is the string of a number: only undefined is falsy,
\* the string "0" is not
StringOrElse(str, b) == IF str # NoConfidence THEN str ELSE b
\* Number(getProperty("Speech.Phrase.Confidence") || e.result.confidence || 0.5)
Confidence(e) == StringOrElse(e.property, OrElse(e.confidence, FallbackScore))

\* the argument e of recognizer.recognized: e.result.reason, .text, .offset,
\* .duration, .properties.getProperty("Speech.Phrase.Confidence"), .confidence
Recognition(reason, text, offset, duration, property, confidence) ==
    [reason |-> reason, text |-> text, offset |-> offset, duration |-> duration,
     property |-> property, confidence |-> confidence]
\* text "hello", offset 0, duration 50,000 ticks, no confidence
SegHello == Recognition("RecognizedSpeech", "hello", 0, 50000, NoConfidence, NoConfidence)
\* a segment whose times are not whole milliseconds, with a confidence property
SegWorld == Recognition("RecognizedSpeech", "world", 50000, 12345, 90, NoConfidence)
\* an empty segment whose confidence property is "0"
SegEmpty == Recognition("RecognizedSpeech", "", 62345, 0, 0, NoConfidence)
\* a segment with e.result.confidence 0 and no property
SegSilent == Recognition("RecognizedSpeech", "mm", 70000, 10000, NoConfidence, 0)
\* a segment reported after later ones, with e.result.confidence only
SegEarly == Recognition("RecognizedSpeech", "again", 0, 20000, NoConfidence, 80)
\* ResultReason.NoMatch
SegNoMatch == Recognition("NoMatch", "", 50000, 0, NoConfidence, NoConfidence)
Recognitions == {SegHello, SegWorld, SegEmpty, SegSilent, SegEarly, SegNoMatch}

\* a token that is always numbered 0:
SegmentToken_IdZero(list, e) ==
    Token(0, e.text, TicksToMs(e.offset), TicksToMs(e.offset + e.duration),
          Confidence(e))
\* the object pushed on results for e
SegmentToken(list, e) ==
    Token(Len(list), e.text, TicksToMs(e.offset), TicksToMs(e.offset + e.duration),
          Confidence(e))

\* a listener that pushes a token for every event, whatever its reason:
Push_AnyReason(list, e) == Append(list, SegmentToken(list, e))
\* if (e && e.result && e.result.reason === ResultReason.RecognizedSpeech) results.push({...})
Push(list, e) ==
    IF e.reason = "RecognizedSpeech" THEN Append(list, SegmentToken(list, e)) ELSE list

\* the payload of the canceled event
CanceledEvent == Err(<<>>, "canceled", NullCode, <<>>)

\* the backend delivers at most this many events to the listeners
MaxDelivered == 4

\* what a call of transcribe leaves alone
downloadVars == <<variant, services, url, stages, file, acquired, releases,
                  unlinkResult, fileExists, procAliveAtRelease, handle, proc, exitCode,
                  launches, events, closeSeen, errorSeen, dl, dlError, getAudioExit,
                  audioFile, fsVars, cliVars>>

\* program is about to call transcriber.transcribe(audioFile): getAudio has
\* succeeded after the close event with code 0
Downloaded(v, exists) ==
    /\ variant = v
    /\ env = Required(v)
    /\ exitStatus = StillRunning
    /\ reported = <<>>
    /\ services = "live"
    /\ url = UrlWatch
    /\ pc = "transcribe"
    /\ outcome = "none"
    /\ error = NoError
    /\ stages = <<"Validating", "Acquiring">>
    /\ log = <<ProcessingUrl(UrlWatch), AudioDownloaded(TempPath(1))>>
    /\ file = TempPath(1)
    /\ acquired = TRUE
    /\ releases = 0
    /\ unlinkResult = "none"
    /\ fileExists = exists
    /\ procAliveAtRelease = FALSE
    /\ handle = "emitter"
    /\ proc = "exited"
    /\ exitCode = 0
    /\ launches = 1
    /\ events = <<>>
    /\ closeSeen = TRUE
    /\ errorSeen = FALSE
    /\ dl = "resolved"
    /\ dlError = NoError
    /\ getAudioExit = "success"
    /\ audioFile = TempPath(1)
    /\ trans = "idle"
    /\ transArg = NoFile
    /\ transCalls = 0
    /\ subtitles = <<>>
    /\ transError = NoError
    /\ interrupted = FALSE
    /\ results = <<>>
    /\ received = <<>>
    /\ session = "none"
    /\ stops = 0
    /\ delivered = 0
    /\ at = "idle"
    /\ elapsed = 0
    /\ requests = <<>>
    /\ uploadRef = NoRef
    /\ jobId = NoRef
    /\ statusData = NoStatus
    /\ responses = 0
    /\ timer = "none"
    /\ recognizer = "none"
    /\ closes = 0
    /\ answer = NoAnswer
    /\ now = 1
    /\ made = <<>>
    /\ disk = {}
    /\ cleaned = <<>>

\* program waits for the extraction process: getAudio has reserved its path
\* and launched the process, whose handle is an event emitter
AwaitingDownload(v) ==
    /\ variant = v
    /\ env = Required(v)
    /\ exitStatus = StillRunning
    /\ reported = <<>>
    /\ services = "live"
    /\ url = UrlWatch
    /\ pc = "awaitDownload"
    /\ outcome = "none"
    /\ error = NoError
    /\ stages = <<"Validating", "Acquiring">>
    /\ log = <<ProcessingUrl(UrlWatch)>>
    /\ file = TempPath(1)
    /\ acquired = TRUE
    /\ releases = 0
    /\ unlinkResult = "none"
    /\ fileExists = FALSE
    /\ procAliveAtRelease = FALSE
    /\ handle = "emitter"
    /\ proc = "running"
    /\ exitCode = NullCode
    /\ launches = 1
    /\ events = <<>>
    /\ closeSeen = FALSE
    /\ errorSeen = FALSE
    /\ dl = "pending"
    /\ dlError = NoError
    /\ getAudioExit = "none"
    /\ audioFile = NoFile
    /\ trans = "idle"
    /\ transArg = NoFile
    /\ transCalls = 0
    /\ subtitles = <<>>
    /\ transError = NoError
    /\ interrupted = FALSE
    /\ results = <<>>
    /\ received = <<>>
    /\ session = "none"
    /\ stops = 0
    /\ delivered = 0
    /\ at = "idle"
    /\ elapsed = 0
    /\ requests = <<>>
    /\ uploadRef = NoRef
    /\ jobId = NoRef
    /\ statusData = NoStatus
    /\ responses = 0
    /\ timer = "none"
    /\ recognizer = "none"
    /\ closes = 0
    /\ answer = NoAnswer
    /\ now = 1
    /\ made = <<>>
    /\ disk = {}
    /\ cleaned = <<>>

InitContinuous == \E exists \in BOOLEAN : Downloaded("continuous", exists)

\* program calls transcribe of main.ts. The executor of the promise:
\* readFileSync, new SpeechRecognizer, the listeners,
\* startContinuousRecognitionAsync, the abort listener; what it throws is
\* caught and rejects the promise
StartContinuous ==
    /\ variant = "continuous"
    /\ pc = "transcribe"
    /\ pc' = "awaitTranscribe"
    /\ stages' = Append(stages, "Transcribing")
    /\ transCalls' = transCalls + 1
    /\ transArg' = audioFile
    /\ IF Readable(audioFile)
         THEN /\ trans' = "pending"
              /\ session' = "open"
              /\ UNCHANGED transError
         ELSE /\ trans' = "rejected"
              /\ transError' = ReadFailed
              /\ UNCHANGED session
    /\ UNCHANGED <<variant, services, url, file, acquired, releases, unlinkResult,
                   fileExists, procAliveAtRelease, handle, proc, exitCode, launches,
                   events, closeSeen, errorSeen, dl, dlError, getAudioExit, audioFile,
                   log, pollVars, onceVars, outcome, error, subtitles, interrupted,
                   results, received, stops, delivered, fsVars, cliVars>>

\* the promise is settled and the fiber has not resumed yet: it resumes in a
\* microtask and runs on to the print without a pause, before the next event
\* of the backend is delivered
Resuming ==
    \/ pc = "awaitTranscribe" /\ trans \in {"resolved", "rejected"}
    \/ pc = "print"

\* recognizer.recognized: a token is pushed for a result of reason
\* RecognizedSpeech. The list the promise was resolved with is results itself.
Recognized ==
    /\ session # "none"
    /\ ~Resuming
    /\ delivered < MaxDelivered
    /\ delivered' = delivered + 1
    /\ \E e \in Recognitions :
         /\ results' = Push(results, e)
         /\ received' = IF e.reason = "RecognizedSpeech" THEN Append(received, e)
                        ELSE received
    /\ subtitles' = IF trans = "resolved" THEN results' ELSE subtitles
    /\ UNCHANGED <<downloadVars, log, pollVars, onceVars, pc, outcome, error, trans, transArg,
                   transCalls, transError, interrupted, session, stops>>

\* a promise whose last settlement wins:
Settle_Last(to) == to
\* a promise that resolve settles again after a rejection:
Settle_ResolveWins(to) == IF trans = "pending" \/ to = "resolved" THEN to ELSE trans
\* a promise that reject settles again after a resolve:
Settle_RejectWins(to) == IF trans = "pending" \/ to = "rejected" THEN to ELSE trans
\* what resolve and reject do to the promise: nothing once it is settled
Settle(to) == IF trans = "pending" THEN to ELSE trans

\* recognizer.sessionStopped: stopContinuousRecognitionAsync(), resolve(results)
SessionStopped ==
    /\ session = "open"
    /\ ~Resuming
    /\ delivered < MaxDelivered
    /\ delivered' = delivered + 1
    /\ session' = "stopped"
    /\ stops' = stops + 1
    /\ trans' = Settle("resolved")
    /\ subtitles' = IF trans' = "resolved" THEN results ELSE subtitles
    /\ UNCHANGED <<downloadVars, log, pollVars, onceVars, pc, outcome, error, transArg, transCalls,
                   transError, interrupted, results, received>>

\* recognizer.canceled: stopContinuousRecognitionAsync(),
\* reject(new TranscriptionError({ error: e }))
Canceled ==
    /\ session # "none"
    /\ ~Resuming
    /\ delivered < MaxDelivered
    /\ delivered' = delivered + 1
    /\ stops' = stops + 1
    /\ trans' = Settle("rejected")
    /\ transError' = IF trans = "pending" THEN TranscriptionError(CanceledEvent) ELSE transError
    /\ UNCHANGED <<downloadVars, log, pollVars, onceVars, pc, outcome, error, transArg, transCalls,
                   subtitles, interrupted, results, received, session>>

\* The rest of the run is program's: ResumeTranscribe when the promise has
\* settled, PrintJson, Interrupt (whose abort listener stops the recognition
\* and rejects), and ScopeClose.
NextContinuous ==
    \/ StartContinuous
    \/ Recognized
    \/ SessionStopped
    \/ Canceled
    \/ ResumeTranscribe
    \/ PrintJson
    \/ Interrupt
    \/ ScopeClose

SpecContinuous == InitContinuous /\ [][NextContinuous]_vars

(***************************************************************************)
(* transcribe of part_002:163-253 (recognizeOnceAsync): the executor of the *)
(* promise, the two callbacks of recognizeOnceAsync, the 30 s timer and the *)
(* abort listener. Each of them closes the recognizer if the variable still *)
(* holds it, and settles the promise.                                       *)
(***************************************************************************)
\* score: 0.8, in hundredths
PlaceholderScore == 80

OnceHello == OnceAnswer("RecognizedSpeech", "hello", 0, 50000)
\* times that are not whole milliseconds
OnceWorld == OnceAnswer("RecognizedSpeech", "world", 50000, 12345)
\* a result without text
OnceNoText == OnceAnswer("RecognizedSpeech", Undefined, 20000, 0)
OnceNoMatch == OnceAnswer("NoMatch", Undefined, 0, 0)
OnceCanceled == OnceAnswer("Canceled", Undefined, 0, 0)
OnceAnswers == {OnceHello, OnceWorld, OnceNoText, OnceNoMatch, OnceCanceled}

\* result.text || ""
TextOrEmpty(text) == IF text = Undefined THEN "" ELSE text

\* a callback that passes the confidence of continuous recognition on:
OnceSubtitles_Fallback(r) ==
    << Token(0, TextOrEmpty(r.text), TicksToMs(r.offset), TicksToMs(r.offset + r.duration),
             FallbackScore) >>
\* const subtitles = [{ id: 0, value: result.text || "", startTimeMs: result.offset / 10000,
\*   endTimeMs: (result.offset + result.duration) / 10000, score: 0.8 }]
OnceSubtitles(r) ==
    << Token(0, TextOrEmpty(r.text), TicksToMs(r.offset), TicksToMs(r.offset + r.duration),
             PlaceholderScore) >>

\* an error that does not say which reason came:
UnexpectedReason_Silent(reason) == Err(<<>>, "reason", NullCode, <<"Unexpected result reason">>)
\* new Error(`Unexpected result reason: ${result.reason}`)
UnexpectedReason(reason) == Err(<<>>, "reason", NullCode, <<"Unexpected result reason: ", reason>>)
\* new Error(`Speech recognition error: ${error}`)
RecognitionFailed == Err(<<>>, "recognition", NullCode, <<"Speech recognition error: ", "backend">>)
\* new Error("Speech recognition timeout after 30 seconds")
OnceTimedOut == Err(<<>>, "timeout", NullCode, <<"Speech recognition timeout after 30 seconds">>)

\* The run of "once" is followed from the wait for the extraction process on.
InitOnce == AwaitingDownload("once")

\* a close that does not look at the variable:
CloseRecognizer_Unguarded ==
    /\ closes' = closes + 1
    /\ recognizer' = "undefined"
\* if (recognizer) { recognizer.close(); recognizer = undefined; }
CloseRecognizer ==
    /\ closes' = IF recognizer = "live" THEN closes + 1 ELSE closes
    /\ recognizer' = IF recognizer = "live" THEN "undefined" ELSE recognizer

\* program calls transcribe of "once". The executor of the promise:
\* readFileSync into the push stream, new SpeechRecognizer, setTimeout,
\* recognizeOnceAsync, the abort listener; what it throws is caught and
\* rejects the promise
StartOnce ==
    /\ variant = "once"
    /\ pc = "transcribe"
    /\ pc' = "awaitTranscribe"
    /\ stages' = Append(stages, "Transcribing")
    /\ transCalls' = transCalls + 1
    /\ transArg' = audioFile
    /\ IF Readable(audioFile)
         THEN /\ trans' = "pending"
              /\ recognizer' = "live"
              /\ timer' = "armed"
              /\ UNCHANGED transError
         ELSE /\ trans' = "rejected"
              /\ transError' = ReadFailed
              /\ UNCHANGED <<recognizer, timer>>
    /\ UNCHANGED <<variant, services, url, file, acquired, releases, unlinkResult,
                   fileExists, procAliveAtRelease, handle, proc, exitCode, launches,
                   events, closeSeen, errorSeen, dl, dlError, getAudioExit, audioFile,
                   log, recognizerVars, pollVars, outcome, error, subtitles, interrupted,
                   closes, answer, fsVars, cliVars>>

\* the first callback of recognizeOnceAsync, (result) => {...}
OnceResult ==
    /\ recognizer # "none"
    /\ answer = NoAnswer
    /\ ~Resuming
    /\ timer' = ClearTimeout(timer)
    /\ CloseRecognizer
    /\ \E r \in OnceAnswers :
         /\ answer' = r
         /\ IF r.reason = "RecognizedSpeech"
              THEN /\ trans' = Settle("resolved")
                   /\ subtitles' = IF trans = "pending" THEN << OnceSubtitles(r) >>
                                   ELSE subtitles
                   /\ UNCHANGED transError
              ELSE /\ trans' = Settle("rejected")
                   /\ transError' = IF trans = "pending" THEN UnexpectedReason(r.reason)
                                    ELSE transError
                   /\ UNCHANGED subtitles
    /\ UNCHANGED <<downloadVars, log, recognizerVars, pollVars, pc, outcome, error,
                   transArg, transCalls, interrupted>>

\* the second callback, (error) => {...}
OnceError ==
    /\ recognizer # "none"
    /\ answer = NoAnswer
    /\ ~Resuming
    /\ answer' = ErrorAnswer
    /\ timer' = ClearTimeout(timer)
    /\ CloseRecognizer
    /\ trans' = Settle("rejected")
    /\ transError' = IF trans = "pending" THEN RecognitionFailed ELSE transError
    /\ UNCHANGED <<downloadVars, log, recognizerVars, pollVars, pc, outcome, error,
                   transArg, transCalls, subtitles, interrupted>>

\* the timer fires, 30 s after setTimeout: nothing has cleared it
TimerFires ==
    /\ timer = "armed"
    /\ ~Resuming
    /\ timer' = "fired"
    /\ CloseRecognizer
    /\ trans' = Settle("rejected")
    /\ transError' = IF trans = "pending" THEN OnceTimedOut ELSE transError
    /\ UNCHANGED <<downloadVars, log, recognizerVars, pollVars, pc, outcome, error,
                   transArg, transCalls, subtitles, interrupted, answer>>

\* The rest of the run is program's: ResumeTranscribe when the promise has
\* settled, PrintJson, Interrupt (whose abort listener clears the timer,
\* closes the recognizer and rejects), and ScopeClose.
NextOnce ==
    \/ ProcWrite
    \/ ProcError
    \/ ProcExit
    \/ Deliver
    \/ ResumeDownload
    \/ LogDownloaded
    \/ StartOnce
    \/ OnceResult
    \/ OnceError
    \/ TimerFires
    \/ ResumeTranscribe
    \/ PrintJson
    \/ Interrupt
    \/ ScopeClose

SpecOnce == InitOnce /\ [][NextOnce]_vars

(***************************************************************************)
(* transcribe of part_002:497-574 (AssemblyAI), alone: the async function   *)
(* given to Effect.tryPromise (read, upload, submit, then the poll loop)    *)
(* and the fiber that waits for its promise. The fetch calls are not given  *)
(* the signal: the function only looks at signal.aborted at the top of the  *)
(* loop, and runs on after the fiber has been interrupted.                  *)
(***************************************************************************)
\* const MAX_POLL_TIME = 20 * 60 * 1000
MAX_POLL_TIME == 1200000
\* const POLL_INTERVAL = 3000
POLL_INTERVAL == 3000

\* an entry of statusData.words; confidence is in hundredths
Word(text, start, end, confidence) ==
    [text |-> text, start |-> start, end |-> end, confidence |-> confidence]
WordHi == Word("hi", 100, 400, 90)
WordThere == Word("there", 400, 900, 75)
WordLists == { <<>>, <<WordHi>>, <<WordHi, WordThere>>, <<WordThere, WordHi>> }

\* a mapping that returns the words last first:
WordTokens_Reversed(words) ==
    [i \in 1..Len(words) |->
        LET w == words[Len(words) + 1 - i]
        IN  Token(i - 1, w.text, w.start, w.end, w.confidence)]
\* a mapping that numbers the tokens from 1:
WordTokens_FromOne(words) ==
    [i \in 1..Len(words) |->
        Token(i, words[i].text, words[i].start, words[i].end, words[i].confidence)]
\* (statusData.words || []).map((w, i) => ({ id: i, value: w.text,
\*    startTimeMs: w.start, endTimeMs: w.end, score: w.confidence }))
WordTokens(words) ==
    [i \in 1..Len(words) |->
        Token(i - 1, words[i].text, words[i].start, words[i].end, words[i].confidence)]

\* the parsed body of a status response; hasWords says whether words is there
StatusData(status, hasWords, words, message) ==
    [status |-> status, hasWords |-> hasWords, words |-> words, error |-> message]
Completed(words) == StatusData("completed", TRUE, words, <<>>)
CompletedNoWords == StatusData("completed", FALSE, <<>>, <<>>)
Failed(message) == StatusData("error", TRUE, <<>>, message)
Pending(status) == StatusData(status, FALSE, <<>>, <<>>)
BadAudio == <<"bad audio">>
StatusBodies ==
    { Completed(w) : w \in WordLists } \cup
    { CompletedNoWords, Failed(BadAudio), Pending("queued"), Pending("processing") }

\* what the async function throws
FetchFailed == Err(<<>>, "fetch", NullCode, <<>>)
JsonFailed == Err(<<>>, "json", NullCode, <<>>)
\* an error that leaves the string of the backend out:
StatusFailed_Generic(message) == Err(<<>>, "status", NullCode, <<"AssemblyAI transcription failed">>)
\* new Error(`AssemblyAI transcription failed: ${statusData.error}`)
StatusFailed(message) == Err(<<>>, "status", NullCode, <<"AssemblyAI transcription failed: ">> \o message)
\* new Error("Transcription timed out")
TimedOut == Err(<<>>, "timeout", NullCode, <<>>)

\* an HTTP request: the endpoint, and the reference it is made with
Request(kind, ref) == [kind |-> kind, ref |-> ref]

\* The run of the AssemblyAI version is followed from the wait for the
\* extraction process on.
InitPoll == AwaitingDownload("poll")

\* the async function throws e: its promise is rejected
Throw(e) ==
    /\ at' = "threw"
    /\ trans' = "rejected"
    /\ transError' = e

\* a loop that never looks at the signal:
AbortObserved_Never == FALSE
\* if (signal.aborted)
AbortObserved == interrupted

\* a loop without a ceiling:
PollTimeExceeded_Never(el) == FALSE
\* a ceiling that lets one more turn through:
PollTimeExceeded_Late(el) == el > MAX_POLL_TIME + POLL_INTERVAL
\* if (elapsed > MAX_POLL_TIME)
PollTimeExceeded(el) == el > MAX_POLL_TIME

\* a loop that sends the submit request again each time round:
LoopTop_Resubmit(el, id) ==
    /\ at' = "status"
    /\ requests' = Append(requests, Request("submit", uploadRef))
    /\ UNCHANGED <<trans, transError>>
\* the top of while (!completed), with el the value of elapsed and id the
\* value of transcriptId: the two checks, then the status request is issued
LoopTop(el, id) ==
    IF AbortObserved
      THEN Throw(Aborted) /\ UNCHANGED requests
      ELSE IF PollTimeExceeded(el)
             THEN Throw(TimedOut) /\ UNCHANGED requests
             ELSE /\ at' = "status"
                  /\ requests' = Append(requests, Request("status", id))
                  /\ UNCHANGED <<trans, transError>>

\* program calls transcribe; Effect.tryPromise calls the async function, which
\* runs to its first await: console.log("Reading audio file..."), FS.readFile(filePath)
StartPoll ==
    /\ variant = "poll"
    /\ pc = "transcribe"
    /\ pc' = "awaitTranscribe"
    /\ stages' = Append(stages, "Transcribing")
    /\ transCalls' = transCalls + 1
    /\ transArg' = audioFile
    /\ trans' = "pending"
    /\ at' = "read"
    /\ log' = Append(log, TranscriberProgress)
    /\ UNCHANGED <<variant, services, url, file, acquired, releases, unlinkResult,
                   fileExists, procAliveAtRelease, handle, proc, exitCode, launches,
                   events, closeSeen, errorSeen, dl, dlError, getAudioExit, audioFile,
                   recognizerVars, onceVars, outcome, error, subtitles, transError,
                   interrupted, elapsed, requests, uploadRef, jobId, statusData, responses,
                   fsVars, cliVars>>

\* FS.readFile settles: console.log("Uploading audio to AssemblyAI...") and the
\* upload request, or the rejection is thrown
ReadDone ==
    /\ at = "read"
    /\ IF Readable(transArg)
         THEN /\ at' = "upload"
              /\ requests' = Append(requests, Request("upload", NoRef))
              /\ log' = Append(log, TranscriberProgress)
              /\ UNCHANGED <<trans, transError>>
         ELSE Throw(ReadFailed) /\ UNCHANGED <<requests, log>>
    /\ UNCHANGED <<downloadVars, recognizerVars, onceVars, pc, outcome, error, transArg, transCalls,
                   subtitles, interrupted, elapsed, uploadRef, jobId, statusData, responses>>

\* the upload response: fetch rejects, or json() rejects, or the body is
\* parsed and uploadData.upload_url is read (undefined when it is not there);
\* then console.log("Upload complete:", ...), console.log("Requesting
\* transcription...") and the submit request with audio_url
UploadResponse ==
    /\ at = "upload"
    /\ responses' = responses + 1
    /\ \/ \E e \in {FetchFailed, JsonFailed} :
            Throw(e) /\ UNCHANGED <<uploadRef, requests, log>>
       \/ \E ref \in {"upload-1", Undefined} :
            /\ uploadRef' = ref
            /\ at' = "submit"
            /\ requests' = Append(requests, Request("submit", ref))
            /\ log' = log \o <<TranscriberProgress, TranscriberProgress>>
            /\ UNCHANGED <<trans, transError>>
    /\ UNCHANGED <<downloadVars, recognizerVars, onceVars, pc, outcome, error, transArg, transCalls,
                   subtitles, interrupted, elapsed, jobId, statusData>>

\* the submit response: transcriptData.id is read, console.log("Polling for
\* transcription completion..."), and the loop is entered with elapsed = 0
SubmitResponse ==
    /\ at = "submit"
    /\ responses' = responses + 1
    /\ \/ \E e \in {FetchFailed, JsonFailed} :
            Throw(e) /\ UNCHANGED <<jobId, requests, log>>
       \/ \E id \in {"job-1", Undefined} :
            /\ jobId' = id
            /\ log' = Append(log, TranscriberProgress)
            /\ LoopTop(elapsed, id)
    /\ UNCHANGED <<downloadVars, recognizerVars, onceVars, pc, outcome, error, transArg, transCalls,
                   subtitles, interrupted, elapsed, uploadRef, statusData>>

\* the status response: "completed" returns the mapped words, "error"
\* throws, any other status starts the sleep of POLL_INTERVAL
StatusResponse ==
    /\ at = "status"
    /\ responses' = responses + 1
    /\ \/ \E e \in {FetchFailed, JsonFailed} :
            Throw(e) /\ UNCHANGED <<subtitles, statusData>>
       \/ \E body \in StatusBodies :
            /\ statusData' = body
            /\ IF body.status = "completed"
                 THEN /\ at' = "returned"
                      /\ trans' = "resolved"
                      /\ subtitles' = WordTokens(IF body.hasWords THEN body.words ELSE <<>>)
                      /\ UNCHANGED transError
                 ELSE IF body.status = "error"
                        THEN Throw(StatusFailed(body.error)) /\ UNCHANGED subtitles
                        ELSE /\ at' = "sleep"
                             /\ UNCHANGED <<trans, transError, subtitles>>
    /\ UNCHANGED <<downloadVars, recognizerVars, onceVars, log, pc, outcome, error, transArg,
                   transCalls, interrupted, elapsed, requests, uploadRef, jobId>>

\* the timer of the sleep fires: elapsed += POLL_INTERVAL, and the loop goes
\* back to its top
Wake ==
    /\ at = "sleep"
    /\ elapsed' = elapsed + POLL_INTERVAL
    /\ LoopTop(elapsed', jobId)
    /\ UNCHANGED <<downloadVars, recognizerVars, onceVars, log, pc, outcome, error, transArg,
                   transCalls, subtitles, interrupted, uploadRef, jobId, statusData, responses>>

\* The rest of the run is program's: ResumeTranscribe when the promise has
\* settled, PrintJson, Interrupt (nothing in the async function listens to
\* the signal), and ScopeClose.
NextPoll ==
    \/ ProcWrite
    \/ ProcError
    \/ ProcExit
    \/ Deliver
    \/ ResumeDownload
    \/ LogDownloaded
    \/ StartPoll
    \/ ReadDone
    \/ UploadResponse
    \/ SubmitResponse
    \/ StatusResponse
    \/ Wake
    \/ ResumeTranscribe
    \/ PrintJson
    \/ Interrupt
    \/ ScopeClose

SpecPoll == InitPoll /\ [][NextPoll]_vars

\* The process ends, events are delivered, responses arrive, timers fire, and
\* the fiber runs when it can.
FairPoll ==
    /\ SpecPoll
    /\ WF_vars(ProcExit) /\ WF_vars(Deliver) /\ WF_vars(ResumeDownload)
    /\ WF_vars(LogDownloaded) /\ WF_vars(StartPoll) /\ WF_vars(ReadDone)
    /\ WF_vars(UploadResponse) /\ WF_vars(SubmitResponse) /\ WF_vars(StatusResponse)
    /\ WF_vars(Wake) /\ WF_vars(ResumeTranscribe) /\ WF_vars(PrintJson)
    /\ WF_vars(ScopeClose)

(***************************************************************************)
(* The three versions of transcribe side by side: a run of any of them,     *)
(* with the events of its own backend.                                      *)
(***************************************************************************)
InitTranscribe ==
    InitContinuous \/ AwaitingDownload("continuous") \/ InitOnce \/ InitPoll

NextTranscribe ==
    \/ ProcWrite
    \/ ProcError
    \/ ProcExit
    \/ Deliver
    \/ ResumeDownload
    \/ LogDownloaded
    \/ StartContinuous
    \/ Recognized
    \/ SessionStopped
    \/ Canceled
    \/ StartOnce
    \/ OnceResult
    \/ OnceError
    \/ TimerFires
    \/ StartPoll
    \/ ReadDone
    \/ UploadResponse
    \/ SubmitResponse
    \/ StatusResponse
    \/ Wake
    \/ ResumeTranscribe
    \/ PrintJson
    \/ Interrupt
    \/ ScopeClose

SpecTranscribe == InitTranscribe /\ [][NextTranscribe]_vars

(***************************************************************************)
(* The grammar of the specification, stated by the shape of the string:     *)
(* http or https, "://", optional "www.", "youtube.com/watch?v=" or         *)
(* "youtu.be/", 11 characters of [A-Za-z0-9_-], then any characters but     *)
(* line terminators.                                                        *)
(***************************************************************************)
MatchesGrammar(s) ==
    \E sc \in {Http \o ColonSlashSlash, Https}, w \in {<<>>, Www},
       h \in {YoutubeCom \o WatchV, YoutuBe} :
        LET prefix == sc \o w \o h
            n == Len(prefix)
        IN  /\ Len(s) >= n + 11
            /\ SubSeq(s, 1, n) = prefix
            /\ \A k \in (n + 1)..(n + 11) : s[k] \in IdChars
            /\ \A k \in (n + 12)..Len(s) : s[k] \notin LineTerminators

IsPrefix(a, b) == Len(a) <= Len(b) /\ SubSeq(b, 1, Len(a)) = a

JsonLines == { i \in 1..Len(log) : log[i].kind = "json" }

(***************************************************************************)
(* C1: in every run that acquired the temporary resource, cleanupFile runs  *)
(* exactly once, however the run ends (success, download failure,           *)
(* transcription failure, cancellation): never zero times, never twice.     *)
(* Release is the scope's: it has not run before the run ends.              *)
(***************************************************************************)
C1_ReleaseExactlyOnce ==
    /\ releases <= 1
    /\ pc = "ended" => releases = (IF acquired THEN 1 ELSE 0)
    /\ pc # "ended" => releases = 0

\* a run cancelled while the extraction process was awaited has released once
C1_Witness ==
    pc = "ended" /\ acquired /\ getAudioExit = "interrupted" /\ releases = 1

(***************************************************************************)
(* C2, as claimed: after a run has ended by any exit path no file exists at *)
(* the reserved path, also when the extraction process outlives the run and *)
(* when the deletion fails.                                                 *)
(***************************************************************************)
C2_NoFileAfterRun == (pc = "ended" /\ acquired) => ~fileExists

(***************************************************************************)
(* C2, amended: after a run that reserved a path has ended, the deletion    *)
(* has been attempted once, and a file exists at the reserved path only if  *)
(* that deletion failed or the extraction process was still running when    *)
(* release ran.                                                             *)
(***************************************************************************)
C2_FileOnlyIfUnlinkFailedOrProcessAlive ==
    (pc = "ended" /\ acquired) =>
        /\ releases = 1
        /\ unlinkResult # "none"
        /\ fileExists => (unlinkResult = "failed" \/ procAliveAtRelease)

\* the process wrote the file and had exited; release deleted it
C2_Witness ==
    /\ pc = "ended" /\ acquired /\ unlinkResult = "deleted"
    /\ ~procAliveAtRelease /\ ~fileExists

(***************************************************************************)
(* C3: transcribe is invoked only after getAudio has succeeded, and with    *)
(* exactly the path getAudio returned; when getAudio fails or is cancelled, *)
(* transcribe is never invoked.                                             *)
(***************************************************************************)
C3_TranscribeAfterGetAudio ==
    /\ transCalls > 0 =>
         /\ getAudioExit = "success"
         /\ audioFile # NoFile
         /\ transArg = audioFile
         /\ audioFile = (IF services = "stub" THEN StubPath ELSE file)
    /\ getAudioExit \in {"failure", "interrupted"} => transCalls = 0 /\ trans = "idle"

\* transcribe was called with the path makeTempFile reserved
C3_Witness == transCalls = 1 /\ services = "live" /\ transArg = TempPath(MaxClock)

(***************************************************************************)
(* C4, as claimed: getAudio resolves with the reserved path only after the  *)
(* extraction process has exited with code 0, whatever kind of handle the   *)
(* launcher returned.                                                       *)
(***************************************************************************)
C4_ResolvesOnlyAfterExitZero ==
    (services = "live" /\ getAudioExit = "success") => (proc = "exited" /\ exitCode = 0)

(***************************************************************************)
(* C5, as claimed: an input that fails the URL grammar ends the run with    *)
(* InvalidUrlError carrying it; no path is reserved, no process launched,   *)
(* no transcription requested.                                              *)
(***************************************************************************)
C5_GrammarFailureEndsRun ==
    (services = "live" /\ pc # "validate" /\ ~MatchesGrammar(url)) =>
        /\ pc = "ended"
        /\ error = InvalidUrlError(url)
        /\ file = NoFile /\ ~acquired
        /\ launches = 0
        /\ transCalls = 0

(***************************************************************************)
(* C6, as claimed: the validator accepts a string exactly when it matches   *)
(* the grammar, and rejects every other string with InvalidUrlError.        *)
(***************************************************************************)
C6_ValidatorIsGrammar ==
    pc # "validate" =>
        IF MatchesGrammar(url)
          THEN pc = "layers"
          ELSE pc = "ended" /\ error = InvalidUrlError(url)

(***************************************************************************)
(* C7: a run passes through Validating, Acquiring, Transcribing, Done in    *)
(* that order, each at most once; the extraction process is launched at     *)
(* most once and transcribe is invoked at most once; Failed and Done are    *)
(* last: after them only the scope closes.                                  *)
(***************************************************************************)
C7_StagesInOrder ==
    LET order == IF services = "stub" THEN <<"Acquiring", "Transcribing", "Done">>
                 ELSE <<"Validating", "Acquiring", "Transcribing", "Done">>
        failed == stages # <<>> /\ stages[Len(stages)] = "Failed"
        done == stages # <<>> /\ stages[Len(stages)] = "Done"
        passed == IF failed THEN SubSeq(stages, 1, Len(stages) - 1) ELSE stages
    IN  /\ IsPrefix(passed, order)
        /\ failed => Len(passed) < Len(order)
        /\ launches <= 1
        /\ transCalls <= 1
        /\ (failed \/ done) => pc \in {"closing", "ended"}
        /\ pc \in {"closing", "ended"} => (failed \/ done)

\* a run that went through all four states
C7_Witness ==
    /\ stages = <<"Validating", "Acquiring", "Transcribing", "Done">>
    /\ pc = "ended" /\ launches = 1 /\ transCalls = 1

(***************************************************************************)
(* C8: with the mock acquirer (fixed path) and the mock transcriber (fixed  *)
(* token list) a run prints "Processing URL", then "Audio downloaded to"    *)
(* that path, then the JSON of exactly that token list, in this order and   *)
(* nothing else.                                                            *)
(***************************************************************************)
C8_StubRunOutput ==
    services = "stub" =>
        /\ Len(log) <= 3
        /\ Len(log) >= 1 => log[1] = ProcessingUrl(url)
        /\ Len(log) >= 2 => log[2] = AudioDownloaded(StubPath)
        /\ Len(log) >= 3 => log[3].kind = "json" /\ JsonParse(log[3].json) = StubTokens
        /\ outcome = "success" => Len(log) = 3

\* the run of the test has ended in success
C8_Witness == services = "stub" /\ pc = "ended" /\ outcome = "success" /\ Len(log) = 3

(***************************************************************************)
(* C9: the JSON output is printed only after transcribe has succeeded, as   *)
(* the last line and as the complete result; a run that fails or is         *)
(* cancelled prints no JSON at all.                                         *)
(***************************************************************************)
C9_JsonOnlyAfterSuccess ==
    /\ JsonLines # {} =>
         /\ trans = "resolved"
         /\ outcome = "success"
         /\ JsonLines = {Len(log)}
         /\ Parsed(variant, log[Len(log)].json) = subtitles
    /\ outcome \in {"failure", "interrupted"} => JsonLines = {}
    /\ (pc = "ended" /\ outcome = "success") => JsonLines # {}

\* a live run printed a result of two tokens
C9_Witness ==
    /\ services = "live" /\ variant = "continuous" /\ pc = "ended" /\ outcome = "success"
    /\ JsonLines # {} /\ subtitles = SampleTokens

(***************************************************************************)
(* C10, as claimed: when the extraction process closes with exit code 0     *)
(* getAudio resolves to the reserved path; when it closes with another code *)
(* getAudio fails with a YoutubeDownloadError that carries that code; when  *)
(* it reports an error, with one that carries the error. Stated for the     *)
(* runs that are not cancelled, once getAudio has ended and the events have *)
(* been delivered.                                                          *)
(***************************************************************************)
C10_ExitCodeDecides ==
    (services = "live" /\ ~interrupted /\ events = <<>> /\ pc # "awaitDownload") =>
        /\ (proc = "exited" /\ ~errorSeen /\ exitCode = 0) =>
               (getAudioExit = "success" /\ audioFile = file)
        /\ (proc = "exited" /\ ~errorSeen /\ exitCode # 0) =>
               /\ getAudioExit = "failure"
               /\ error.tags # <<>> /\ Head(error.tags) = "YoutubeDownloadError"
               /\ error.code = exitCode
        /\ (errorSeen /\ ~closeSeen) =>
               (getAudioExit = "failure" /\ error = YoutubeDownloadError(SpawnError))


(***************************************************************************)
(* C11: if the caller cancels while the extraction process is running (and  *)
(* no error of the process has been delivered), the promise of getAudio is  *)
(* rejected with YoutubeDownloadError{Error("aborted")} and getAudio has    *)
(* not given a path to program; from then on the promise stays rejected     *)
(* and getAudio never succeeds, whatever the process does later.            *)
(***************************************************************************)
C11_CancelWhileRunningAborts ==
    [][ /\ (~interrupted /\ interrupted' /\ proc = "running" /\ ~errorSeen)
            => /\ dl' = "rejected"
               /\ dlError' = YoutubeDownloadError(Aborted)
               /\ getAudioExit' # "success"
        /\ (interrupted /\ dl = "rejected")
            => (dl' = "rejected" /\ dlError' = dlError /\ getAudioExit' = getAudioExit)
      ]_vars


(***************************************************************************)
(* C12: continuous recognition. When session-stopped is delivered while the *)
(* promise is pending, recognition is stopped and the promise is resolved   *)
(* with a list that has one token per recognized-speech event received      *)
(* before, in arrival order (the i-th token has the text of the i-th        *)
(* event); that list is what the caller gets when transcribe returns.       *)
(***************************************************************************)
C12_SessionStoppedReturnsSegments ==
    [][ /\ (trans = "pending" /\ session = "open" /\ session' = "stopped")
            => /\ stops' = stops + 1
               /\ trans' = "resolved"
               /\ Len(subtitles') = Len(received)
               /\ \A i \in 1..Len(received) : subtitles'[i].value = received[i].text
        /\ (pc = "awaitTranscribe" /\ pc' = "print")
            => /\ session = "stopped"
               /\ Len(subtitles') = Len(received)
               /\ \A i \in 1..Len(received) : subtitles'[i].value = received[i].text
      ]_vars
\* transcribe has returned two tokens for two segments, after a no-match event
C12_Witness ==
    /\ pc = "ended" /\ outcome = "success"
    /\ Len(received) = 2 /\ delivered = 4
    /\ subtitles = results /\ Len(subtitles) = 2
    /\ subtitles[1].value = "world" /\ subtitles[2].value = "hello"


(***************************************************************************)
(* C13: continuous recognition. When the canceled event is delivered while  *)
(* the promise is pending (no session-stopped before it), the promise is    *)
(* rejected with a TranscriptionError that carries the event payload; it    *)
(* stays rejected whatever is delivered later, the fiber that resumes fails *)
(* with a TranscriptionError around it, and transcribe never returns the    *)
(* tokens, however many segments were recognized before.                    *)
(***************************************************************************)
C13_CanceledFails ==
    [][ /\ (/\ trans = "pending"
            /\ delivered' = delivered + 1 /\ stops' = stops + 1 /\ session' = session)
            => (trans' = "rejected" /\ transError' = TranscriptionError(CanceledEvent))
        /\ (trans = "rejected" /\ transError.kind = "canceled")
            => /\ trans' = "rejected" /\ transError' = transError
               /\ subtitles' = <<>>
               /\ outcome' # "success"
               /\ (pc = "awaitTranscribe" /\ ~interrupted')
                    => (outcome' = "failure" /\ error' = TranscriptionError(transError))
      ]_vars
\* two segments, then canceled: transcribe has failed; session-stopped came later
C13_Witness ==
    /\ pc = "ended" /\ outcome = "failure"
    /\ error = TranscriptionError(TranscriptionError(CanceledEvent))
    /\ Len(received) = 2 /\ Len(results) = 2
    /\ session = "stopped"
    /\ subtitles = <<>>

C15_TicksToMilliseconds ==
    /\ Len(results) = Len(received)
    /\ \A i \in 1..Len(results) :
         LET t == results[i]
             e == received[i]
         IN  /\ t.startTimeMs.den > 0 /\ t.endTimeMs.den > 0
             /\ t.startTimeMs.num * 10000 = e.offset * t.startTimeMs.den
             /\ t.endTimeMs.num * 10000 = (e.offset + e.duration) * t.endTimeMs.den
    /\ (pc = "ended" /\ outcome = "success" /\ received = <<SegHello>>)
         => /\ Len(subtitles) = 1
            /\ subtitles[1].startTimeMs = Whole(0)
            /\ subtitles[1].endTimeMs = Whole(5)
            /\ subtitles[1].value = "hello"
\* the scripted backend: one segment "hello", then session-stopped, and nothing else
C15_Witness ==
    /\ pc = "ended" /\ outcome = "success"
    /\ received = <<SegHello>> /\ delivered = 2 /\ session = "stopped"
    /\ subtitles = << Token(0, "hello", Whole(0), Whole(5), FallbackScore) >>


(***************************************************************************)
(* C16: submit and poll. When a status response says "completed", the       *)
(* async function returns, and what it returns has one token per entry of   *)
(* the word list of that response, in the same order: id = position from 0, *)
(* value = text, startTimeMs = start, endTimeMs = end, score = confidence.  *)
(* The fiber that resumes with it succeeds with that list. For the words    *)
(* [{hi, 100, 400, 0.9}] the result is [{0, hi, 100, 400, 0.9}].            *)
(***************************************************************************)
C16_CompletedMapsWords ==
    LET words == IF statusData.hasWords THEN statusData.words ELSE <<>> IN
    /\ (statusData.status = "completed") <=> (at = "returned")
    /\ (at = "returned")
         => /\ trans = "resolved"
            /\ Len(subtitles) = Len(words)
            /\ \A i \in 1..Len(words) :
                 /\ subtitles[i].id = i - 1
                 /\ subtitles[i].value = words[i].text
                 /\ subtitles[i].startTimeMs = words[i].start
                 /\ subtitles[i].endTimeMs = words[i].end
                 /\ subtitles[i].score = words[i].confidence
            /\ (pc \in {"print", "closing", "ended"} /\ ~interrupted) => outcome # "failure"
    /\ (outcome = "success") => (at = "returned" /\ log[Len(log)] = JsonOutput(subtitles))
    /\ (statusData = Completed(<<WordHi>>))
         => subtitles = << [id |-> 0, value |-> "hi", startTimeMs |-> 100,
                            endTimeMs |-> 400, score |-> 90] >>
\* the scripted backend of the claim, and a run that has returned its result
C16_Witness ==
    /\ statusData = Completed(<<WordHi>>)
    /\ at = "returned" /\ outcome = "success" /\ pc = "ended"
    /\ subtitles = << Token(0, "hi", 100, 400, 90) >>


(***************************************************************************)
(* C17: submit and poll. When a status response says "error", the async     *)
(* function throws an error whose message holds the error string of the     *)
(* response ("bad audio"); it issues no request after that, no result is    *)
(* ever returned, and the fiber that resumes fails with a                   *)
(* TranscriptionError around that error.                                    *)
(***************************************************************************)
C17_ErrorStatusFails ==
    [][ /\ (statusData'.status = "error")
            => /\ at' = "threw"
               /\ trans' = "rejected"
               /\ transError'.kind = "status"
               /\ \E k \in 1..Len(transError'.url) : transError'.url[k] = "bad audio"
               /\ SubSeq(transError'.url, 2, Len(transError'.url)) = statusData'.error
               /\ subtitles' = <<>>
               /\ outcome' # "success"
        /\ (statusData.status = "error")
            => /\ requests' = requests
               /\ statusData' = statusData
               /\ (pc = "awaitTranscribe" /\ pc' # pc /\ ~interrupted')
                    => (outcome' = "failure" /\ error' = TranscriptionError(transError))
      ]_vars
\* the second status response said "error": the run has failed after four requests
C17_Witness ==
    /\ statusData = Failed(BadAudio)
    /\ pc = "ended" /\ outcome = "failure"
    /\ error = TranscriptionError(StatusFailed(BadAudio))
    /\ Len(requests) = 4 /\ elapsed = POLL_INTERVAL


(***************************************************************************)
(* C18: submit and poll. A status response that is neither "completed" nor  *)
(* "error" starts one sleep; when the sleep ends elapsed has grown by one   *)
(* poll interval (3 s) and, unless the call was cancelled, the status is    *)
(* requested again while elapsed is at most 20 minutes and the function     *)
(* throws the timeout error, without a request, once elapsed exceeds them;  *)
(* the fiber then fails with a TranscriptionError around it. So elapsed     *)
(* never passes 20 minutes and one interval, and with responses arriving    *)
(* and timers firing the polling comes to an end.                           *)
(***************************************************************************)
C18_PollingEnds ==
    /\ [][ /\ (/\ at = "status" /\ at' # "status"
               /\ transError' \notin {FetchFailed, JsonFailed}
               /\ statusData'.status \notin {"completed", "error"})
               => (at' = "sleep" /\ elapsed' = elapsed /\ requests' = requests)
           /\ (at = "sleep" /\ at' # "sleep")
               => /\ elapsed' = elapsed + 3000
                  /\ ~interrupted =>
                       IF elapsed' > 20 * 60 * 1000
                         THEN /\ at' = "threw" /\ trans' = "rejected"
                              /\ transError' = TimedOut
                              /\ requests' = requests
                         ELSE /\ at' = "status"
                              /\ requests' = Append(requests, Request("status", jobId))
           /\ (transError = TimedOut)
               => /\ at' = "threw" /\ requests' = requests /\ outcome' # "success"
                  /\ (pc = "awaitTranscribe" /\ pc' # pc /\ ~interrupted')
                       => (outcome' = "failure" /\ error' = TranscriptionError(TimedOut))
         ]_vars
    /\ [](elapsed <= 20 * 60 * 1000 + 3000)
    /\ <>[](at \notin {"read", "upload", "submit", "status", "sleep"})
\* the status was never terminal: the timeout came after 20 minutes and one interval
C18_Witness ==
    /\ transError = TimedOut /\ at = "threw"
    /\ elapsed = MAX_POLL_TIME + POLL_INTERVAL
    /\ statusData.status \in {"queued", "processing"}
    /\ pc = "ended" /\ outcome = "failure" /\ error = TranscriptionError(TimedOut)


(***************************************************************************)
(* C19: submit and poll. When the call is cancelled while the loop sleeps,  *)
(* the function, once the sleep ends, sees the aborted signal at the top of *)
(* the loop and throws the abort error without issuing a request; having    *)
(* thrown it issues no request any more and never returns a result, and     *)
(* the run does not succeed.                                                *)
(***************************************************************************)
C19_CancelDuringSleep ==
    [][ /\ (at = "sleep" /\ interrupted /\ at' # "sleep")
            => /\ at' = "threw"
               /\ trans' = "rejected"
               /\ transError' = Aborted
               /\ requests' = requests
        /\ (at = "sleep" /\ interrupted')
            => /\ at' \in {"sleep", "threw"}
               /\ outcome' = "interrupted"
               /\ subtitles' = <<>>
        /\ (transError = Aborted)
            => /\ at' = "threw" /\ trans' = "rejected"
               /\ requests' = requests
               /\ subtitles' = <<>>
               /\ outcome' = "interrupted"
      ]_vars
\* cancelled in the first sleep: upload, submit and one status request, no more
C19_Witness ==
    /\ interrupted /\ outcome = "interrupted" /\ pc = "ended"
    /\ at = "threw" /\ transError = Aborted
    /\ elapsed = POLL_INTERVAL
    /\ Len(requests) = 3 /\ requests[3].kind = "status"


(***************************************************************************)
(* C20: the AssemblyAI run, from the wait for the extraction process on.    *)
(* When the run is cancelled while it waits for the process, for the file   *)
(* read, for an upload, submit or status response, or in the sleep of the   *)
(* poll loop, the fiber stops waiting at once: it ends with the             *)
(* interruption and its scope closes; no request is issued by that step;    *)
(* a cancelled run never succeeds and never prints a result, whatever the   *)
(* process and the async function do later; and the run comes to its end.   *)
(***************************************************************************)
C20_CancelStopsWaiting ==
    /\ [][ /\ (/\ ~interrupted /\ interrupted'
               /\ \/ pc = "awaitDownload" /\ dl = "pending"
                  \/ pc = "awaitTranscribe" /\ at \in {"read", "upload", "submit", "status", "sleep"})
               => /\ pc' = "closing"
                  /\ outcome' = "interrupted"
                  /\ requests' = requests
                  /\ getAudioExit' \in {"interrupted", "success"}
                  /\ (pc = "awaitDownload") => (getAudioExit' = "interrupted")
           /\ interrupted
               => /\ pc' \in {"closing", "ended"}
                  /\ outcome' = "interrupted"
                  /\ \A i \in 1..Len(log') : log'[i].kind # "json"
         ]_vars
    /\ (interrupted ~> (pc = "ended"))
\* cancelled while a status request was in flight: the response said
\* "completed" and the function returned its tokens, but the run has no result
C20_Witness ==
    /\ interrupted /\ pc = "ended" /\ outcome = "interrupted"
    /\ at = "returned" /\ trans = "resolved" /\ Len(subtitles) = 2
    /\ \A i \in 1..Len(log) : log[i].kind # "json"


C22_TempPathsDiffer ==
    \A i, j \in 1..Len(made) :
        (i # j /\ made[i].exit = "success" /\ made[j].exit = "success"
               /\ made[i].extension = made[j].extension)
            => made[i].path # made[j].path

(***************************************************************************)
(* C23: every cleanupFile call ends in success with the value undefined,    *)
(* whatever unlink did: the file was there and is deleted, no file was ever *)
(* at the path, the path was cleaned before, or the deletion failed with    *)
(* the file in place. Only a deletion that succeeded changes the disk.      *)
(***************************************************************************)
C23_CleanupNeverRaises ==
    /\ [](\A i \in 1..Len(cleaned) :
            /\ cleaned[i].exit = "success"
            /\ cleaned[i].value = Undefined)
    /\ [][ \A path \in disk :
              path \notin disk' => /\ Len(cleaned') = Len(cleaned) + 1
                                   /\ cleaned'[Len(cleaned')].path = path
                                   /\ cleaned'[Len(cleaned')].unlink = "deleted" ]_vars
\* the same path cleaned twice: the file was deleted, then it was absent
C23_Witness ==
    /\ Len(cleaned) = 2
    /\ cleaned[1].path = cleaned[2].path
    /\ cleaned[1].unlink = "deleted" /\ cleaned[2].unlink = "absent"
    /\ cleaned[2].exit = "success"

(***************************************************************************)
(* C24, as claimed: a makeTempFile call that succeeds returns a name that   *)
(* ends in the extension it was given; a call that cannot resolve the temp  *)
(* directory fails with a ResourceError.                                    *)
(***************************************************************************)
C24_ReservesNameOrResourceError ==
    \A i \in 1..Len(made) :
        /\ made[i].exit = "success" => made[i].path[3] = made[i].extension
        /\ made[i].exit = "failure" =>
              (Len(made[i].error.tags) >= 1 /\ made[i].error.tags[1] = "ResourceError")

(***************************************************************************)
(* The part of C24 the code keeps: the name ends in the extension, the call *)
(* leaves the disk as it was, and the failure is a YoutubeDownloadError     *)
(* around the rejection of realpath.                                        *)
(***************************************************************************)
C24_ReservesNameOnly ==
    /\ [](\A i \in 1..Len(made) :
            /\ made[i].exit = "success" => made[i].path[3] = made[i].extension
            /\ made[i].exit = "failure" =>
                  made[i].error = YoutubeDownloadError(RealpathFailed))
    /\ [][ Len(made') > Len(made) => disk' = disk ]_vars

\* the token lists in the value transcribe of version v returned: the list
\* itself, or for "once" the lists it holds
ReturnedLists(v, value) == IF v = "once" THEN value ELSE << value >>
\* every token of every list returned so far
ReturnedTokens ==
    IF trans # "resolved" THEN {}
    ELSE LET lists == ReturnedLists(variant, subtitles)
         IN  UNION { { lists[k][i] : i \in 1..Len(lists[k]) } : k \in 1..Len(lists) }

(***************************************************************************)
(* C25: in what transcribe has returned, in each of the three versions, the *)
(* i-th token of a list (counted from 0) has id i: the ids are 0..n-1 in    *)
(* list order. It stays so when the continuous recognizer pushes on the     *)
(* returned list afterwards.                                                *)
(***************************************************************************)
C25_IdsAreListPositions ==
    trans = "resolved" =>
        LET lists == ReturnedLists(variant, subtitles)
        IN  \A k \in 1..Len(lists) :
              \A i \in 1..Len(lists[k]) : lists[k][i].id = i - 1
\* continuous recognition has returned three tokens
C25_Witness ==
    /\ variant = "continuous" /\ trans = "resolved" /\ outcome = "success"
    /\ Len(subtitles) = 3
    /\ subtitles[1].id = 0 /\ subtitles[2].id = 1 /\ subtitles[3].id = 2


\* a time of a token of version v is a whole number: "poll" hands the numbers
\* of the response on, the recognizers divide ticks by 10,000
IsWholeMs(v, x) == IF v = "poll" THEN x \in Int ELSE x.den = 1
\* x <= y for two such times
NotAfter(v, x, y) == IF v = "poll" THEN x <= y ELSE x.num * y.den <= y.num * x.den
\* the start times of a token list never go down
Chronological(v, list) ==
    \A i \in 1..Len(list) - 1 : NotAfter(v, list[i].startTimeMs, list[i + 1].startTimeMs)

(***************************************************************************)
(* C26, as claimed: every token transcribe has returned has whole numbers   *)
(* as startTimeMs and endTimeMs, with endTimeMs >= startTimeMs.             *)
(***************************************************************************)
C26_WholeMillisecondsInOrder ==
    \A t \in ReturnedTokens :
        /\ IsWholeMs(variant, t.startTimeMs)
        /\ IsWholeMs(variant, t.endTimeMs)
        /\ NotAfter(variant, t.startTimeMs, t.endTimeMs)

C30_TimeoutOnlyWhenNothingCame ==
    [][ /\ (timer = "armed" /\ timer' = "fired")
            => /\ trans = "pending" /\ answer = NoAnswer /\ ~interrupted
               /\ trans' = "rejected" /\ transError' = OnceTimedOut
        /\ (pc = "awaitTranscribe" /\ trans = "rejected" /\ transError.kind = "timeout"
                                   /\ ~interrupted')
            => (outcome' = "failure" /\ error' = TranscriptionError(OnceTimedOut))
        /\ (answer' # NoAnswer \/ interrupted') => timer' # "armed"
        /\ timer \in {"cleared", "fired"} => timer' = timer
        /\ trans \in {"resolved", "rejected"}
            => (trans' = trans /\ transError' = transError /\ subtitles' = subtitles)
        /\ (trans = "resolved" \/ outcome = "success") => outcome' # "failure"
      ]_vars
\* nothing came in 30 s: the run has failed with the timeout error
C30_Witness ==
    /\ variant = "once" /\ pc = "ended" /\ outcome = "failure"
    /\ timer = "fired" /\ answer = NoAnswer
    /\ error = TranscriptionError(OnceTimedOut)
    /\ closes = 1


(***************************************************************************)
(* C31: the command line. A run that failed (invalid URL, configuration,    *)
(* download or transcription failure) has reported its error when the       *)
(* process ends, and the process ends with a status other than zero; a      *)
(* process that ends with status zero has run with success.                 *)
(***************************************************************************)
C31_FailureExitsNonZero ==
    exitStatus # StillRunning =>
        /\ outcome = "failure" => (reported = <<error>> /\ exitStatus # 0)
        /\ exitStatus = 0 => outcome = "success"
\* the part that holds: the error of a failed run is what console.error printed,
\* and a run with success prints nothing there
C31_FailureIsReported ==
    exitStatus # StillRunning =>
        /\ outcome = "failure" => reported = <<error>>
        /\ outcome = "success" => reported = <<>>


(***************************************************************************)
(* C32: configuration. When the key (or, for the two versions of the        *)
(* streaming backend, the region) is not in the environment, the run with   *)
(* the real services fails while the layers are built: it ends with the     *)
(* configuration error, before getAudio is called. No temporary path is     *)
(* reserved, no extraction process is launched, transcribe is never called  *)
(* and the failure is not a TranscriptionError.                             *)
(***************************************************************************)
CredentialAbsent ==
    IF variant = "poll" THEN "ASSEMBLYAI_KEY" \notin env
    ELSE "SPEECH_KEY" \notin env \/ "SPEECH_REGION" \notin env

C33_ReleaseOnlyAfterRead ==
    releases > 0 => (pc # "transcribe" /\ at # "read")
\* the part that holds: in a run that is not cancelled the release comes when
\* the function of transcribe has returned or thrown, and the two streaming
\* versions have read the file before they can be cancelled
C33_SequentialWithoutCancel ==
    /\ (releases > 0 /\ ~interrupted) => at \in {"idle", "returned", "threw"}
    /\ (releases > 0 /\ variant # "poll" /\ transCalls > 0) =>
          (trans \in {"resolved", "rejected"} /\ transArg = file)


(***************************************************************************)
(* C34: submit and poll. The requests of one call of transcribe, in the     *)
(* order they are issued, are the upload, then the submit, then status      *)
(* requests; a request is issued only when every earlier one has ended, so  *)
(* at most one is in flight; and after a request has failed the function    *)
(* issues no request any more.                                              *)
(***************************************************************************)
CountOf(kind) == Cardinality({ i \in 1..Len(requests) : requests[i].kind = kind })
InFlight == Len(requests) - responses

\* as stated: every call that has ended issued the upload request exactly once
C34_UploadExactlyOnce ==
    (variant = "poll" /\ at \in {"returned", "threw"}) => CountOf("upload") = 1

\* a call whose read of the file fails issues no request; every other call
\* issues the upload exactly once
C34_RequestsInSequence ==
    /\ [](/\ InFlight \in {0, 1}
          /\ InFlight = 1 <=> at \in {"upload", "submit", "status"}
          /\ \A i \in 1..Len(requests) :
                requests[i].kind = (IF i = 1 THEN "upload"
                                    ELSE IF i = 2 THEN "submit" ELSE "status")
          /\ CountOf("upload") <= 1 /\ CountOf("submit") <= 1
          /\ at \in {"idle", "read"} => requests = <<>>
          /\ (at = "threw" /\ transError = ReadFailed) => requests = <<>>
          /\ (at \notin {"idle", "read"} /\ transError # ReadFailed) => CountOf("upload") = 1)
    /\ [][/\ requests' # requests =>
               /\ Len(requests') = Len(requests) + 1
               /\ SubSeq(requests', 1, Len(requests)) = requests
               /\ responses' = Len(requests)
          /\ at \in {"threw", "returned"} => (requests' = requests /\ at' = at)
          /\ (at \in {"upload", "submit"} /\ transError' \in {FetchFailed, JsonFailed})
               => (at' = "threw" /\ requests' = requests)]_vars
\* upload, submit and two status requests, the second one in flight
C34_Witness ==
    /\ variant = "poll"
    /\ Len(requests) = 4 /\ responses = 3 /\ at = "status"
    /\ requests[1].kind = "upload" /\ requests[2].kind = "submit"
    /\ requests[3].kind = "status" /\ requests[4].kind = "status"


(***************************************************************************)
(* C35: submit and poll. The submit request is issued only with an upload   *)
(* reference the upload response contained, and a status request only with  *)
(* a job identifier the submit response contained; when a response lacks    *)
(* its field, transcribe fails and issues no further request.               *)
(***************************************************************************)
C35_NoRequestWithoutReference ==
    /\ \A i \in 1..Len(requests) :
          requests[i].kind \in {"submit", "status"} => requests[i].ref # Undefined
    /\ (uploadRef = Undefined \/ jobId = Undefined) =>
          (at = "threw" /\ trans = "rejected")
\* the part that holds: the submit request carries what the upload response
\* held as upload_url and every status request what the submit response held
\* as id, whatever that is
C35_RequestsCarryResponseFields ==
    \A i \in 1..Len(requests) :
        /\ requests[i].kind = "submit" => requests[i].ref = uploadRef
        /\ requests[i].kind = "status" => requests[i].ref = jobId


(***************************************************************************)
(* C36: getAudio and transcribe of main.ts. The first terminal event that   *)
(* is delivered (for getAudio the close or the error event of the process,  *)
(* or the abort; for transcribe session-stopped, canceled or the abort)     *)
(* settles the promise by what it is, and what is delivered afterwards      *)
(* changes neither the settled promise nor its value; the effect of         *)
(* getAudio and the run end once, with one outcome.                         *)
(***************************************************************************)
C36_FirstTerminalEventDecides ==
    [][/\ dl \in {"resolved", "rejected"} => (dl' = dl /\ dlError' = dlError)
       /\ (dl = "pending" /\ dl' # "pending" /\ ~interrupted') =>
             /\ events # <<>>
             /\ dl' = (IF Head(events).type = "close" /\ Head(events).code = 0
                         THEN "resolved" ELSE "rejected")
       /\ (dl = "pending" /\ interrupted' /\ ~interrupted /\ pc = "awaitDownload") =>
             (dl' = "rejected" /\ dlError' = YoutubeDownloadError(Aborted))
       /\ getAudioExit # "none" => getAudioExit' = getAudioExit
       /\ (variant = "continuous" /\ trans \in {"resolved", "rejected"}) =>
             (trans' = trans /\ transError' = transError)
       /\ (variant = "continuous" /\ trans = "pending" /\ trans' # "pending") =>
             trans' = (IF ~interrupted' /\ session' = "stopped" /\ session = "open"
                         THEN "resolved" ELSE "rejected")
       /\ outcome # "none" => (outcome' = outcome /\ error' = error)
      ]_vars
\* session-stopped came first and canceled afterwards: the promise stays
\* resolved and the run has ended with success
C36_Witness ==
    /\ variant = "continuous" /\ ~interrupted
    /\ session = "stopped" /\ stops = 2
    /\ trans = "resolved" /\ transError = NoError
    /\ pc = "ended" /\ outcome = "success"
\* the error event came first and the close event with code 0 afterwards:
\* the promise of getAudio stays rejected
C36_LateClose ==
    /\ variant = "continuous"
    /\ errorSeen /\ closeSeen /\ exitCode = 0
    /\ dl = "rejected" /\ dlError = SpawnError
    /\ getAudioExit = "failure"


(***************************************************************************)
(* C37: transcribe of main.ts. Once the promise has been resolved with the  *)
(* token list on session-stopped, the list the caller holds stays as it was *)
(* at that moment: no event delivered afterwards, a recognized segment      *)
(* included, changes its length or its tokens.                              *)
(***************************************************************************)
C37_ReturnedListIsFrozen ==
    [][(variant = "continuous" /\ trans = "resolved" /\ outcome = "success")
          => subtitles' = subtitles]_vars
\* the part that holds: the list only ever grows at its end, token by token
C37_ReturnedListOnlyGrows ==
    [][(variant = "continuous" /\ trans = "resolved") =>
          (Len(subtitles') >= Len(subtitles)
           /\ SubSeq(subtitles', 1, Len(subtitles)) = subtitles)]_vars


(***************************************************************************)
(* C38: submit and poll. One call of transcribe issues at most 401 status   *)
(* requests: the ceiling of 20 minutes is compared with "greater than", so  *)
(* a request is still issued at 1,200,000 ms. The counter elapsed changes   *)
(* only when a sleep that followed a non-terminal status ends, by 3000 ms:  *)
(* it is 3000 ms times the number of sleeps done, and no request or         *)
(* response changes it.                                                     *)
(***************************************************************************)
C38_AtMost401StatusRequests ==
    /\ [](LET n == CountOf("status") IN
            /\ n <= 401
            /\ elapsed % 3000 = 0 /\ elapsed <= 1203000
            /\ n = 0 => elapsed = 0
            /\ (n > 0 /\ at \in {"status", "sleep", "returned"}) => elapsed = 3000 * (n - 1)
            /\ (n > 0 /\ at = "threw") => elapsed \in {3000 * (n - 1), 3000 * n}
            /\ (at = "status" /\ n > 0) => elapsed <= 1200000)
    /\ [][/\ elapsed' # elapsed =>
               /\ at = "sleep" /\ elapsed' = elapsed + 3000
               /\ statusData.status \notin {"completed", "error"}
               /\ responses' = responses
          /\ (at = "sleep" /\ at' # "sleep") => elapsed' = elapsed + 3000
          /\ (responses' # responses \/ (requests' # requests /\ at # "sleep"))
               => elapsed' = elapsed]_vars
\* 401 status requests were answered with a status that is not terminal: the
\* 401st sleep ends at 1,203,000 ms and the function gives up
C38_Witness ==
    /\ variant = "poll"
    /\ CountOf("status") = 401 /\ responses = 403
    /\ elapsed = 1203000
    /\ at = "threw" /\ transError = TimedOut


(***************************************************************************)
(* C39: single-shot transcribe. The recognizer is closed exactly once on    *)
(* every terminal path (result callback, error callback, timeout, abort):   *)
(* when the promise is settled the recognizer that was created has been     *)
(* closed, and it is never closed twice, in whatever order several of them  *)
(* come. The first of result, error and abort also clears the timer if it   *)
(* has not fired.                                                           *)
(***************************************************************************)
C39_RecognizerClosedOnce ==
    /\ [](/\ closes <= 1
          /\ recognizer = "live" => (closes = 0 /\ trans = "pending")
          /\ recognizer = "undefined" => closes = 1
          /\ (variant = "once" /\ recognizer # "none" /\ trans \in {"resolved", "rejected"})
                => (closes = 1 /\ recognizer = "undefined")
          /\ (recognizer # "none" /\ (answer # NoAnswer \/ interrupted))
                => timer \in {"cleared", "fired"})
    /\ [][/\ closes' # closes =>
               (closes' = closes + 1 /\ recognizer = "live" /\ recognizer' = "undefined")
          /\ (timer = "armed" /\ (answer' # answer \/ (interrupted' /\ ~interrupted)))
               => timer' = "cleared"
          /\ timer \in {"cleared", "fired"} => timer' = timer]_vars
\* the timer fired first and the result callback came afterwards: one close
C39_Witness ==
    /\ variant = "once"
    /\ timer = "fired" /\ answer.reason = "RecognizedSpeech"
    /\ closes = 1 /\ recognizer = "undefined"
    /\ trans = "rejected" /\ transError = OnceTimedOut


(***************************************************************************)
(* C40: continuous recognition. Whenever the backend supplies a confidence  *)
(* for a segment, as the property Speech.Phrase.Confidence or as            *)
(* result.confidence, the value 0 included, the score of the token is that  *)
(* value; the score is the fallback 0.5 when neither is supplied.           *)
(***************************************************************************)
C40_SuppliedConfidenceIsTheScore ==
    variant = "continuous" =>
        /\ Len(results) = Len(received)
        /\ \A i \in 1..Len(results) :
             LET e == received[i] IN
               /\ e.property # NoConfidence => results[i].score = e.property
               /\ (e.property = NoConfidence /\ e.confidence # NoConfidence)
                     => results[i].score = e.confidence
               /\ (e.property = NoConfidence /\ e.confidence = NoConfidence)
                     => results[i].score = FallbackScore
\* the part that holds: a confidence property, "0" included, and a
\* result.confidence other than 0 are the score; the fallback is also what a
\* result.confidence of 0 without a property gets
C40_NonZeroConfidenceIsTheScore ==
    variant = "continuous" =>
        /\ Len(results) = Len(received)
        /\ \A i \in 1..Len(results) :
             LET e == received[i] IN
               /\ e.property # NoConfidence => results[i].score = e.property
               /\ (e.property = NoConfidence /\ e.confidence \notin {NoConfidence, 0})
                     => results[i].score = e.confidence
               /\ (e.property = NoConfidence /\ e.confidence \in {NoConfidence, 0})
                     => results[i].score = FallbackScore

============================================================================
